---- MODULE Spec2Model ----
(***************************************************************************)
(* Model of vulcan, a command line tool that drives blue/green and canary  *)
(* deployments of an ECS service with the EXTERNAL deployment controller.  *)
(* Every command (bootstrap, deploy, canary, complete, rollback, clean) is *)
(* a short-lived process; the steps of its handler are the actions below,  *)
(* one per awaited call, forced in program order by pc.  The ECS and ELBv2 *)
(* services are the cluster variables; a call to them either fails (and    *)
(* changes nothing) or succeeds with the documented effect.                *)
(***************************************************************************)
EXTENDS Integers, Sequences, FiniteSets, TLC

(* ----------------------------- bounds ---------------------------------- *)
\* number of task set ARNs the cluster can hand out
MaxTaskSets == 3
\* number of task definition ARNs the cluster can hand out
MaxTaskDefs == 3
\* number of command invocations in one behaviour
MaxRuns == 2
\* number of load balancer bindings a task set may declare
MaxBindings == 3
\* number of container definitions of a task definition, and of entries of
\* an image definitions file
MaxContainers == 2
\* the longest poll interval and the longest timeout of wait and monitor, in
\* units of five seconds
MaxPollInterval == 2
MaxTimeout == 5

(* ----------------------------- values ---------------------------------- *)
\* JavaScript null / undefined (an option that was not given)
Null == "<none>"
\* the literal text "null" (utils/obj.js, isStringNull)
StrNull == "null"

TsName == <<"ts1", "ts2", "ts3", "ts4", "ts5">>
TdName == <<"td1", "td2", "td3", "td4", "td5">>
TaskSetArns == {TsName[i] : i \in 1..MaxTaskSets}
TaskDefArns == {TdName[i] : i \in 1..MaxTaskDefs}

TgNames == {"a", "b", "c"}
\* ARN of the target group with a given name, as ELBv2 reports it
TgArn(name) ==
    CASE name = "a" -> "arn:tg/a/1"
      [] name = "b" -> "arn:tg/b/2"
      [] OTHER      -> "arn:tg/c/3"
TgArns == {TgArn(n) : n \in TgNames}

\* String.prototype.split('/') on a target group ARN
SplitSlash(arn) ==
    CASE arn = "arn:tg/a/1" -> <<"arn:tg", "a", "1">>
      [] arn = "arn:tg/b/2" -> <<"arn:tg", "b", "2">>
      [] arn = "arn:tg/c/3" -> <<"arn:tg", "c", "3">>
      [] OTHER              -> <<arn>>

\* the values of --target-groups that are tried
TargetGroupsInputs == {Null, "a", "a,b", "b,a", "b,c", "a,a"}

\* String.prototype.split(',') on the --target-groups string
SplitComma(s) ==
    CASE s = "a"   -> <<"a">>
      [] s = "a,b" -> <<"a", "b">>
      [] s = "b,a" -> <<"b", "a">>
      [] s = "b,c" -> <<"b", "c">>
      [] s = "a,a" -> <<"a", "a">>
      [] s = "c,a,b" -> <<"c", "a", "b">>
      [] OTHER     -> <<s>>

\* the --target-groups string a caller writes for a list of names; no option
\* at all for an empty list
JoinComma(names) ==
    CASE names = <<>>              -> Null
      [] names = <<"a">>           -> "a"
      [] names = <<"a", "b">>      -> "a,b"
      [] names = <<"b", "a">>      -> "b,a"
      [] names = <<"b", "c">>      -> "b,c"
      [] names = <<"a", "a">>      -> "a,a"
      [] names = <<"c", "a", "b">> -> "c,a,b"
      [] OTHER                     -> StrNull

\* a forward action of a listener rule: 100% to one target group
Forward(tg) == <<[tg |-> tg, weight |-> 100]>>

\* the --task-set-file option: not given, or a file holding a task set
\* specification without loadBalancers, or with 0, 1 or 2 of them
NoFile == [given |-> FALSE, hasLbKey |-> FALSE, lbs |-> <<>>]
TaskSetFiles ==
    { NoFile,
      [given |-> TRUE, hasLbKey |-> FALSE, lbs |-> <<>>],
      [given |-> TRUE, hasLbKey |-> TRUE,  lbs |-> <<>>],
      [given |-> TRUE, hasLbKey |-> TRUE,  lbs |-> <<TgArn("a")>>],
      [given |-> TRUE, hasLbKey |-> TRUE,  lbs |-> <<TgArn("a"), TgArn("b")>>] }
NoSpec == [hasLbKey |-> FALSE, lbs |-> <<>>]
\* file.readJSON of a task set file
ReadTaskSet(f) == [hasLbKey |-> f.hasLbKey, lbs |-> f.lbs]

AbsentTaskSet == [status |-> "ABSENT", lbs |-> <<>>, td |-> Null]

(* ---------------------------- variables -------------------------------- *)
VARIABLES
    taskSets,    \* ECS: task set ARN -> [status, lbs, td]
    taskDefs,    \* ECS: the registered (ACTIVE) task definition ARNs
    rules,       \* ELBv2: "live"/"test" listener rule -> its forward actions
    nextTs,      \* ECS: number of task set ARNs handed out so far
    nextTd,      \* ECS: number of task definition ARNs handed out so far
    controller,  \* ECS: deploymentController.type of the service
    cmd,         \* the command of the current invocation
    pc,          \* the position of the current invocation in its handler
    argv,        \* the options of the current invocation
    state,       \* the state object the handler builds
    loc,         \* the handler's local variables
    log,         \* the mutating calls this invocation has issued, in order
    outcome,     \* "running", "ok", or the error the handler ended with
    outputFile,  \* content of the state file on disk
    writes,      \* number of writeJSON calls on the state file in this run
    runs,        \* number of invocations started
    snap,        \* topology of the cluster when this invocation started
    before,      \* for a rollback fed with the state file of a deploy:
                 \* the topology of the cluster when that deploy started
    fn,          \* the library function that is applied on its own
    args,        \* the arguments it is applied to
    result,      \* <<>> before the call, then <<what it returned or threw>>
    mon,         \* wait and monitor: the options and the runtime of the process
    now,         \* time since the handler ran, in units of five seconds
    interval,    \* the interval timer ecsTaskStatusId is scheduled
    timeoutTimer,\* the timer globalTimeoutId is scheduled
    calls,       \* the describeTaskSet calls that have not returned yet, each
                 \* named by the time of the tick that issued it
    exit,        \* "idle", "running", "ok" (exit code 0) or the error the
                 \* process died of
    events       \* what the timers and the callbacks have done, in order

clusterVars == <<taskSets, taskDefs, rules, nextTs, nextTd, controller>>
handlerVars == <<cmd, pc, argv, state, loc, log, outcome, outputFile, writes,
                 runs, snap, before>>
libVars == <<fn, args, result>>
monVars == <<mon, now, interval, timeoutTimer, calls, exit, events>>
vars == <<taskSets, taskDefs, rules, nextTs, nextTd, controller, cmd, pc, argv,
          state, loc, log, outcome, outputFile, writes, runs, snap, before,
          fn, args, result, mon, now, interval, timeoutTimer, calls, exit,
          events>>

(* ------------------------- pure functions ------------------------------ *)
\* JavaScript truthiness of a text or field value: the empty text and null
\* (or undefined) are falsy
Truthy(value) == value # "" /\ value # Null

\* part_006 436-442 / utils/obj.js 32-38
isStringNull(str) == ~(Truthy(str) /\ str # StrNull)

\* deploy.js 115-124
InitialState ==
    [ isInitialDeployment    |-> FALSE,
      isCanaryEligible       |-> FALSE,
      isLoadBalancerPresent  |-> FALSE,
      blueTargetGroupArn     |-> Null,
      greenTargetGroupArn    |-> Null,
      blueTaskSetArn         |-> Null,
      greenTaskSetArn        |-> Null,
      greenTaskDefinitionArn |-> Null ]

EmptyArgv ==
    [ blueTaskSetArn         |-> Null,
      isBlueGreen            |-> FALSE,
      targetGroups           |-> Null,
      greenTaskSetArn        |-> Null,
      greenTaskDefinitionArn |-> Null,
      isLoadBalancerPresent  |-> FALSE,
      isInitialDeployment    |-> FALSE,
      blueTargetGroupArn     |-> Null,
      greenTargetGroupArn    |-> Null,
      percent                |-> 0,
      fromFile               |-> FALSE,
      afterFailedDeploy      |-> FALSE,
      greenTaskSetFile         |-> FALSE,
      overrideGreenTaskSetFile |-> NoFile ]

EmptyLoc ==
    [ blueTaskSet         |-> Null,
      isBluePresent       |-> FALSE,
      greenTaskSet        |-> NoSpec,
      finalGreenTaskSet   |-> NoSpec,
      registeredTd        |-> Null,
      isLoadBalancer      |-> FALSE,
      topology            |-> "none",
      greenTargetGroupArn |-> Null,
      blueTargetGroupArn  |-> Null,
      createdTaskSet      |-> Null,
      todo                |-> <<>>,
      service             |-> "unknown" ]

\* what the cluster looks like from outside: task sets, task definitions,
\* the primary task set and the listener rules
Topology == [taskSets |-> taskSets, taskDefs |-> taskDefs, rules |-> rules]
NoSnap == [taskSets |-> [a \in TaskSetArns |-> AbsentTaskSet],
           taskDefs |-> {},
           rules    |-> [r \in {"live", "test"} |-> <<>>]]

Call(op, a1, a2, ok) == [op |-> op, a1 |-> a1, a2 |-> a2, ok |-> ok]

\* a check that takes any number of bindings for a load balancer
isLoadBalancerPresentAnyNumber(taskSet) ==
    IF taskSet.hasLbKey /\ Len(taskSet.lbs) > 0 THEN "true" ELSE "false"

\* part_006 387-410 and lib/vulcan.js 83-106: "true", "false", or "throw"
\* for the error about more than one load balancer
isLoadBalancerPresent(taskSet) ==
    IF taskSet.hasLbKey
    THEN CASE Len(taskSet.lbs) = 0 -> "false"
           [] Len(taskSet.lbs) = 1 -> "true"
           [] OTHER                -> "throw"
    ELSE "false"

\* the task set description ECS returns for an existing task set
Described(arn) == [hasLbKey |-> TRUE, lbs |-> taskSets[arn].lbs]

\* part_006 236-249
transformToTaskSet(arn) == Described(arn)

\* a decision that does not ask whether blue green deployment was requested
TopologyOfIgnoringRequest(isLoadBalancer, isBlueGreen, isBluePresent) ==
    IF ~isLoadBalancer THEN "rolling"
    ELSE IF isBluePresent THEN "blueGreen"
    ELSE "rollingLB"

\* the switch of deploy.js 210-312 and bootstrap.js 294-360
TopologyOf(isLoadBalancer, isBlueGreen, isBluePresent) ==
    IF ~isLoadBalancer THEN "rolling"
    ELSE IF isBlueGreen /\ isBluePresent THEN "blueGreen"
    ELSE "rollingLB"

\* a resolution that takes the second name for green whatever blue is
getTargetGroupsSecondIsGreen(targetGroupsString, oldTaskSet) ==
    IF targetGroupsString = Null
    THEN [err |-> "InsufficientTargetGroupsError", green |-> Null, blue |-> Null]
    ELSE LET targetGroups == SplitComma(targetGroupsString)
         IN IF Len(targetGroups) <= 1
            THEN [err |-> "InsufficientTargetGroupsError",
                  green |-> Null, blue |-> Null]
            ELSE [err |-> "none", green |-> targetGroups[2],
                  blue |-> SplitSlash(oldTaskSet.lbs[1])[2]]

\* part_006 332-379 and lib/vulcan.js 115-162: [err, green, blue]
getTargetGroupsWithBlueGreenEnabled(targetGroupsString, oldTaskSet) ==
    IF targetGroupsString = Null
    THEN [err |-> "InsufficientTargetGroupsError", green |-> Null, blue |-> Null]
    ELSE LET targetGroups == SplitComma(targetGroupsString)
         IN IF Len(targetGroups) <= 1
            THEN [err |-> "InsufficientTargetGroupsError",
                  green |-> Null, blue |-> Null]
            ELSE LET blueTargetGroup == SplitSlash(oldTaskSet.lbs[1])[2]
                 IN IF blueTargetGroup = targetGroups[2]
                    THEN [err |-> "none", green |-> targetGroups[1],
                          blue |-> blueTargetGroup]
                    ELSE IF blueTargetGroup = targetGroups[1]
                    THEN [err |-> "none", green |-> targetGroups[2],
                          blue |-> blueTargetGroup]
                    ELSE [err |-> "TargetGroupMismatchError",
                          green |-> Null, blue |-> Null]

\* part_006 303-323: [err, green]
getTargetGroupWithBlueGreenDisabled(targetGroupsString) ==
    IF targetGroupsString = Null
    THEN [err |-> "InsufficientTargetGroupsError", green |-> Null]
    ELSE [err |-> "none", green |-> SplitComma(targetGroupsString)[1]]

(* ------------------------------ Init ----------------------------------- *)
Ts(status, lbs) == [status |-> status, lbs |-> lbs, td |-> "td1"]

\* the services the commands are run against
InitialServices ==
    { [n |-> 0, ts |-> <<>>, controller |-> "EXTERNAL"],
      [n |-> 0, ts |-> <<>>, controller |-> Null],
      [n |-> 1, ts |-> <<Ts("ACTIVE", <<TgArn("a")>>)>>, controller |-> "CODE_DEPLOY"],
      [n |-> 1, ts |-> <<Ts("PRIMARY", <<>>)>>, controller |-> "EXTERNAL"],
      [n |-> 1, ts |-> <<Ts("PRIMARY", <<TgArn("a")>>)>>,
       controller |-> "EXTERNAL"],
      [n |-> 1, ts |-> <<Ts("ACTIVE", <<TgArn("a")>>)>>,
       controller |-> "EXTERNAL"],
      [n |-> 1, ts |-> <<Ts("PRIMARY", <<TgArn("a"), TgArn("b")>>)>>,
       controller |-> "EXTERNAL"],
      [n |-> 2, ts |-> <<Ts("ACTIVE", <<TgArn("a")>>),
                         Ts("ACTIVE", <<TgArn("a")>>)>>,
       controller |-> "EXTERNAL"],
      [n |-> 2, ts |-> <<Ts("PRIMARY", <<TgArn("a")>>),
                         Ts("ACTIVE", <<TgArn("b")>>)>>,
       controller |-> "EXTERNAL"] }

\* the cluster before any command, and no handler running
HandlerInit ==
    /\ \E s \in InitialServices :
          /\ taskSets = [a \in TaskSetArns |->
                           IF \E i \in 1..s.n : TsName[i] = a
                           THEN s.ts[CHOOSE i \in 1..s.n : TsName[i] = a]
                           ELSE AbsentTaskSet]
          /\ nextTs = s.n
          /\ controller = s.controller
    /\ taskDefs = {"td1"}
    /\ nextTd = 1
    /\ rules = [r \in {"live", "test"} |-> Forward(TgArn("a"))]
    /\ cmd = "none"
    /\ pc = "idle"
    /\ argv = EmptyArgv
    /\ state = InitialState
    /\ loc = EmptyLoc
    /\ log = <<>>
    /\ outcome = "ok"
    /\ outputFile = InitialState
    /\ writes = 0
    /\ runs = 0
    /\ snap = NoSnap
    /\ before = NoSnap

\* no library function is applied on its own
LibIdle == fn = "none" /\ args = <<>> /\ result = <<>>

\* no wait or monitor command runs
MonitorIdle ==
    /\ mon = [command |-> "none", check |-> FALSE, pollInterval |-> 1,
              timeout |-> 1, unhandledRejections |-> "throw"]
    /\ now = 0
    /\ interval = FALSE
    /\ timeoutTimer = FALSE
    /\ calls = {}
    /\ exit = "idle"
    /\ events = <<>>

Init ==
    /\ HandlerInit
    /\ LibIdle
    /\ MonitorIdle

(* --------------------------- ECS / ELBv2 ------------------------------- *)
\* a creation that makes the new task set PRIMARY in the place of the former
ApiCreateTaskSetAsPrimary(spec, td) ==
    [a \in TaskSetArns |->
        IF a = TsName[nextTs + 1]
        THEN [status |-> "PRIMARY", lbs |-> spec.lbs, td |-> td]
        ELSE IF taskSets[a].status = "PRIMARY"
             THEN [taskSets[a] EXCEPT !.status = "ACTIVE"]
             ELSE taskSets[a]]

\* utils/aws.js 64-78: the created task set is ACTIVE and gets a fresh ARN
ApiCreateTaskSet(spec, td) ==
    [taskSets EXCEPT ![TsName[nextTs + 1]] =
        [status |-> "ACTIVE", lbs |-> spec.lbs, td |-> td]]

\* a promotion that leaves the former PRIMARY task set as it is
ApiPromoteWithoutDemotion(arn) ==
    [taskSets EXCEPT ![arn].status = "PRIMARY"]

\* utils/aws.js 116-138: the task set becomes PRIMARY, the former PRIMARY
\* task set becomes ACTIVE
ApiUpdateServicePrimaryTaskSet(arn) ==
    [a \in TaskSetArns |->
        IF a = arn THEN [taskSets[a] EXCEPT !.status = "PRIMARY"]
        ELSE IF taskSets[a].status = "PRIMARY"
             THEN [taskSets[a] EXCEPT !.status = "ACTIVE"]
             ELSE taskSets[a]]

\* utils/aws.js 148-166
ApiDeleteTaskSet(arn) == [taskSets EXCEPT ![arn] = AbsentTaskSet]

\* utils/aws.js 223-245
ApiModifyListenerRule(rule, tg) == [rules EXCEPT ![rule] = Forward(tg)]

\* a task set ARN the cluster knows
Exists(arn) == arn \in TaskSetArns /\ taskSets[arn].status # "ABSENT"

(* ------------------------------ deploy --------------------------------- *)
\* a new invocation starts when no handler is running
CanStart == pc \in {"idle", "done"} /\ runs < MaxRuns

\* the start of a handler: its locals are fresh, nothing has been written
Begin(c, first, a, st, bf) ==
    /\ CanStart
    /\ cmd' = c
    /\ pc' = first
    /\ argv' = a
    /\ state' = st
    /\ loc' = EmptyLoc
    /\ log' = <<>>
    /\ outcome' = "running"
    /\ writes' = 0
    /\ runs' = runs + 1
    /\ snap' = Topology
    /\ before' = bf
    /\ UNCHANGED <<clusterVars, outputFile, libVars, monVars>>

\* a step of a handler that writes no file: it goes on, returns ("done" with
\* "ok") or throws ("done" with the error)
Step(next, out, lg) ==
    /\ pc' = next
    /\ outcome' = out
    /\ log' = lg
    /\ UNCHANGED <<state, outputFile, writes, libVars, monVars>>

\* an option that is read from the state file, or else chosen by the caller
Option(fromFile, value, domain) == IF fromFile THEN {value} ELSE domain

\* a catch block that re-throws without writing the state
DeployCatchWithoutWrite(err, st, lg) ==
    /\ outcome' = err
    /\ state' = st
    /\ UNCHANGED <<outputFile, writes, libVars, monVars>>
    /\ log' = lg
    /\ pc' = "done"

\* deploy.js 316-322: the catch block writes the state and re-throws
DeployCatch(err, st, lg) ==
    /\ outcome' = err
    /\ state' = st
    /\ outputFile' = st
    /\ writes' = writes + 1
    /\ log' = lg
    /\ pc' = "done"
    /\ UNCHANGED <<libVars, monVars>>

\* deploy.js 314-315: the state is written at the end of the try block
DeployFinish(st, lg) ==
    /\ outcome' = "ok"
    /\ state' = st
    /\ outputFile' = st
    /\ writes' = writes + 1
    /\ log' = lg
    /\ pc' = "done"
    /\ UNCHANGED <<libVars, monVars>>

\* a step of deploy that ends with neither a write nor an error
DeployGoto(next, st, lg) ==
    /\ outcome' = outcome
    /\ state' = st
    /\ outputFile' = outputFile
    /\ writes' = writes
    /\ log' = lg
    /\ pc' = next
    /\ UNCHANGED <<libVars, monVars>>

\* deploy.js 111-124
DeployStart ==
    \E b \in {Null, StrNull} \cup TaskSetArns :
       Begin("deploy", "deploy:describeBlue",
             [EmptyArgv EXCEPT !.blueTaskSetArn = b], InitialState, NoSnap)

\* deploy.js 127-144
DeployDescribeBlue ==
    /\ pc = "deploy:describeBlue"
    /\ UNCHANGED <<clusterVars, cmd, argv, runs, snap, before>>
    /\ LET st(blue) == [state EXCEPT !.isInitialDeployment = (blue = Null),
                                     !.blueTaskSetArn = argv.blueTaskSetArn]
       IN IF isStringNull(argv.blueTaskSetArn)
          THEN /\ loc' = loc
               /\ DeployGoto("deploy:taskDef", st(Null), log)
          ELSE \E ok \in BOOLEAN :
                 IF ~ok
                 THEN loc' = loc /\ DeployCatch("ExternalApiError", state, log)
                 ELSE IF ~Exists(argv.blueTaskSetArn)
                 THEN \* taskSets[0] is undefined, line 136 dereferences it
                      loc' = loc /\ DeployCatch("TypeError", state, log)
                 ELSE /\ loc' = [loc EXCEPT !.blueTaskSet = argv.blueTaskSetArn,
                                            !.isBluePresent = TRUE]
                      /\ DeployGoto("deploy:taskDef",
                                    st(argv.blueTaskSetArn), log)

\* part_006 100-156: "file", "inherit" or the error
getTaskDefinition(isBluePresent, taskDefinitionFile) ==
    IF ~isBluePresent
    THEN IF taskDefinitionFile = Null \/ taskDefinitionFile = StrNull
         THEN "MissingInputError" ELSE "file"
    ELSE IF taskDefinitionFile # Null THEN "file" ELSE "inherit"

\* utils/obj.js 14-24.  An object is a function from its keys to their
\* values; no override (null) behaves as an override without keys
overrideObject(template, obj, override) ==
    [key \in DOMAIN template |->
        IF key \in DOMAIN override /\ Truthy(override[key])
        THEN override[key]
        ELSE IF key \in DOMAIN obj /\ Truthy(obj[key])
        THEN obj[key]
        ELSE template[key]]

\* lib/vulcan.js 205-207: Array.prototype.findIndex for the name of a
\* container; 0 stands for the -1 of JavaScript
findIndex(imageDefinitions, name) ==
    LET same == {i \in 1..Len(imageDefinitions) :
                    imageDefinitions[i].name = name}
    IN IF same = {} THEN 0
       ELSE CHOOSE i \in same : \A j \in same : i <= j

\* a check of a container that does not look at the image of its entry
ContainerErrorNoImageCheck(imageDefinitions, element) ==
    IF findIndex(imageDefinitions, element.name) = 0
    THEN "UnmatchedContainerError" ELSE "none"

\* lib/vulcan.js 205-219: the error a container definition runs into
ContainerError(imageDefinitions, element) ==
    LET index == findIndex(imageDefinitions, element.name)
    IN IF index = 0 THEN "UnmatchedContainerError"
       ELSE IF isStringNull(imageDefinitions[index].image)
       THEN "MissingImageError"
       ELSE "none"

\* lib/vulcan.js 199-230: map() goes through the container definitions in
\* order, so the first one with an error decides
assembleTaskDefinition(containerDefinitions, imageDefinitions) ==
    LET bad == {i \in 1..Len(containerDefinitions) :
                   ContainerError(imageDefinitions,
                                  containerDefinitions[i]) # "none"}
    IN IF bad # {}
       THEN [err |-> ContainerError(imageDefinitions,
                        containerDefinitions[
                           CHOOSE i \in bad : \A j \in bad : i <= j]),
             containerDefinitions |-> <<>>]
       ELSE [err |-> "none",
             containerDefinitions |->
                [i \in 1..Len(containerDefinitions) |->
                    [containerDefinitions[i] EXCEPT !.image =
                        imageDefinitions[
                           findIndex(imageDefinitions,
                                     containerDefinitions[i].name)].image]]]

\* part_006 146-153: the fields removed from a described task definition
removeKeys ==
    {"taskDefinitionArn", "revision", "status", "compatibilities",
     "registeredAt", "registeredBy"}

\* the fields of a task definition as ECS describes it
DescribedTaskDefinitionKeys ==
    removeKeys \cup {"family", "containerDefinitions", "requiresAttributes"}

\* constants.js 9-27: the fields of the task definition template (those the
\* resolution can tell apart)
TaskDefinitionTemplateKeys == {"family", "containerDefinitions", "cpu"}

\* part_006 100-156: the fields of the task definition that is returned
GetTaskDefinitionKeys(source, fileKeys) ==
    CASE source = "file"    -> fileKeys
      [] source = "inherit" -> DescribedTaskDefinitionKeys \ removeKeys
      [] OTHER              -> {}

\* bootstrap.js 190-222: the fields of the task definition after it was put
\* into the template (utils/obj.js 14-24 keeps the keys of the template)
BootstrapTaskDefinitionKeys(source, fileKeys) ==
    CASE source = "file"    -> fileKeys \cap TaskDefinitionTemplateKeys
      [] source = "inherit" ->
            DescribedTaskDefinitionKeys \cap TaskDefinitionTemplateKeys
      [] OTHER              -> {}

\* part_006 168-191: more than one container definition is refused
createTaskDefinition(containers) ==
    IF containers > 1 THEN "UnsupportedTopologyError" ELSE "none"

\* deploy.js 146-172
DeployTaskDef ==
    /\ pc = "deploy:taskDef"
    /\ UNCHANGED <<clusterVars, cmd, argv, runs, snap, before, loc>>
    /\ \E taskDefinitionFile \in {Null, StrNull, "td.json"},
          containers \in 1..2, ok \in BOOLEAN :
          LET src == getTaskDefinition(loc.isBluePresent, taskDefinitionFile)
          IN IF src = "MissingInputError"
             THEN DeployCatch(src, state, log)
             ELSE IF ~ok
             THEN \* readJSON or describeTaskDefinition failed
                  DeployCatch(IF src = "file" THEN "FileError"
                              ELSE "ExternalApiError", state, log)
             ELSE IF createTaskDefinition(containers) # "none"
             THEN DeployCatch(createTaskDefinition(containers), state, log)
             ELSE DeployGoto("deploy:register", state, log)

\* deploy.js 174-190
DeployRegister ==
    /\ pc = "deploy:register"
    /\ UNCHANGED <<taskSets, rules, nextTs, controller, cmd, argv, runs, snap, before>>
    /\ \E ok \in BOOLEAN :
          IF ok /\ nextTd < MaxTaskDefs
          THEN LET arn == TdName[nextTd + 1]
               IN /\ taskDefs' = taskDefs \cup {arn}
                  /\ nextTd' = nextTd + 1
                  /\ loc' = [loc EXCEPT !.registeredTd = arn]
                  /\ DeployGoto("deploy:plan",
                        [state EXCEPT !.greenTaskDefinitionArn = arn],
                        Append(log, Call("registerTaskDefinition", arn, Null,
                                         TRUE)))
          ELSE /\ UNCHANGED <<taskDefs, nextTd, loc>>
               /\ DeployCatch("ExternalApiError", state,
                     Append(log, Call("registerTaskDefinition", Null, Null,
                                      FALSE)))

\* part_006 202-228: the task set specification, or the error
getTaskSet(isBluePresent, blueTaskSet, taskSetFile) ==
    IF ~isBluePresent
    THEN IF ~taskSetFile.given
         THEN [err |-> "MissingInputError", spec |-> NoSpec]
         ELSE [err |-> "none", spec |-> ReadTaskSet(taskSetFile)]
    ELSE IF taskSetFile.given
         THEN [err |-> "none", spec |-> ReadTaskSet(taskSetFile)]
         ELSE [err |-> "none", spec |-> transformToTaskSet(blueTaskSet)]

\* deploy.js 192-212, 232-235, 276-280: the green task set and the topology
DeployPlan ==
    /\ pc = "deploy:plan"
    /\ UNCHANGED <<clusterVars, cmd, runs, snap, before>>
    /\ \E taskSetFile \in TaskSetFiles, isBlueGreen \in BOOLEAN :
          LET got == getTaskSet(loc.isBluePresent, loc.blueTaskSet,
                                taskSetFile)
              lb  == IF loc.isBluePresent
                     THEN isLoadBalancerPresent(Described(loc.blueTaskSet))
                     ELSE isLoadBalancerPresent(got.spec)
              top == TopologyOf(lb = "true", isBlueGreen, loc.isBluePresent)
          IN /\ argv' = [argv EXCEPT !.isBlueGreen = isBlueGreen]
             /\ IF got.err # "none"
                THEN loc' = loc /\ DeployCatch(got.err, state, log)
                ELSE IF lb = "throw"
                THEN loc' = loc
                     /\ DeployCatch("UnsupportedTopologyError", state, log)
                ELSE /\ loc' = [loc EXCEPT !.greenTaskSet = got.spec,
                                           !.isLoadBalancer = (lb = "true"),
                                           !.topology = top]
                     /\ DeployGoto(IF top = "rolling" THEN "deploy:create"
                                   ELSE "deploy:targetGroups", state, log)

\* deploy.js 237-247 and 281-287; part_006 418-428
DeployTargetGroups ==
    /\ pc = "deploy:targetGroups"
    /\ UNCHANGED <<clusterVars, cmd, runs, snap, before>>
    /\ \E targetGroups \in TargetGroupsInputs, ok \in BOOLEAN,
          matches \in 0..2 :
          LET bg  == getTargetGroupsWithBlueGreenEnabled(targetGroups,
                         Described(loc.blueTaskSet))
              one == getTargetGroupWithBlueGreenDisabled(targetGroups)
              err == IF loc.topology = "blueGreen" THEN bg.err ELSE one.err
              green == IF loc.topology = "blueGreen" THEN bg.green
                       ELSE one.green
          IN /\ argv' = [argv EXCEPT !.targetGroups = targetGroups]
             /\ IF err # "none"
                THEN loc' = loc /\ DeployCatch(err, state, log)
                ELSE IF ~ok
                THEN loc' = loc /\ DeployCatch("ExternalApiError", state, log)
                ELSE IF matches # 1
                THEN loc' = loc /\ DeployCatch("NotFoundError", state, log)
                ELSE /\ loc' = [loc EXCEPT
                                  !.greenTargetGroupArn = TgArn(green),
                                  !.blueTargetGroupArn =
                                     IF loc.topology = "blueGreen"
                                     THEN TgArn(bg.blue) ELSE Null]
                     /\ DeployGoto("deploy:create", state, log)

\* part_006 261-295: the specification handed to ECS, or the error
createTaskSet(taskSet, targetGroup) ==
    IF targetGroup = Null
    THEN [err |-> "none", spec |-> taskSet]
    ELSE IF ~taskSet.hasLbKey
    THEN [err |-> "MissingLoadBalancerConfigError", spec |-> taskSet]
    ELSE IF Len(taskSet.lbs) = 0
    THEN [err |-> "TypeError", spec |-> taskSet]
    ELSE [err |-> "none",
          spec |-> [taskSet EXCEPT !.lbs[1] = targetGroup]]

\* in the rolling branch the state is updated right after the creation
\* (deploy.js 226-229); in the other two after the listener rule (270-275,
\* 306-310)
StateAfterCreate(st, topology, arn) ==
    IF topology = "rolling"
    THEN [st EXCEPT !.isCanaryEligible = FALSE,
                    !.isLoadBalancerPresent = FALSE,
                    !.greenTaskSetArn = arn]
    ELSE st

\* deploy.js 216-230, 249-258, 288-297
DeployCreate ==
    /\ pc = "deploy:create"
    /\ UNCHANGED <<taskDefs, rules, nextTd, controller, cmd, argv, runs, snap, before>>
    /\ \E ok \in BOOLEAN :
          LET made == createTaskSet(loc.greenTaskSet, loc.greenTargetGroupArn)
              arn  == TsName[nextTs + 1]
          IN IF made.err # "none"
             THEN /\ UNCHANGED <<taskSets, nextTs, loc>>
                  /\ DeployCatch(made.err, state, log)
             ELSE IF ~(ok /\ nextTs < MaxTaskSets /\ controller = "EXTERNAL")
             THEN /\ UNCHANGED <<taskSets, nextTs, loc>>
                  /\ DeployCatch("ExternalApiError", state,
                        Append(log, Call("createTaskSet", Null, Null, FALSE)))
             ELSE /\ taskSets' = ApiCreateTaskSet(made.spec, loc.registeredTd)
                  /\ nextTs' = nextTs + 1
                  /\ loc' = [loc EXCEPT !.createdTaskSet = arn]
                  /\ LET lg == Append(log, Call("createTaskSet", arn, Null,
                                                TRUE))
                         st == StateAfterCreate(state, loc.topology, arn)
                     IN IF loc.topology = "rolling"
                        THEN DeployFinish(st, lg)
                        ELSE DeployGoto("deploy:listener", st, lg)

\* the state a deploy with a load balancer records once its listener rule is
\* modified: deploy.js 270-275 (blue green) and 306-310 (rolling)
StateAfterListener(st, topology, l) ==
    IF topology = "blueGreen"
    THEN [st EXCEPT !.isCanaryEligible = TRUE,
                    !.isLoadBalancerPresent = TRUE,
                    !.greenTaskSetArn = l.createdTaskSet,
                    !.greenTargetGroupArn = l.greenTargetGroupArn,
                    !.blueTargetGroupArn = l.blueTargetGroupArn]
    ELSE [st EXCEPT !.isCanaryEligible = FALSE,
                    !.isLoadBalancerPresent = TRUE,
                    !.greenTaskSetArn = l.createdTaskSet,
                    !.greenTargetGroupArn = l.greenTargetGroupArn]

\* a deploy that always modifies the live rule
DeployRuleAlwaysLive(topology) == "live"

\* the listener rule a deploy modifies: the test rule in a blue green
\* deployment (deploy.js 263-266), the live rule otherwise (300-303)
DeployRule(topology) == IF topology = "blueGreen" THEN "test" ELSE "live"

\* deploy.js 260-275, 299-315
DeployListener ==
    /\ pc = "deploy:listener"
    /\ UNCHANGED <<taskSets, taskDefs, nextTs, nextTd, controller, cmd, argv,
                   runs, snap, before, loc>>
    /\ \E ok \in BOOLEAN :
          LET rule == DeployRule(loc.topology)
              lg   == Append(log, Call("modifyListenerRule", rule,
                                       loc.greenTargetGroupArn, ok))
          IN IF ok
             THEN /\ rules' = ApiModifyListenerRule(rule,
                                                    loc.greenTargetGroupArn)
                  /\ DeployFinish(StateAfterListener(state, loc.topology, loc),
                                  lg)
             ELSE /\ rules' = rules
                  /\ DeployCatch("ExternalApiError", state, lg)

Deploy ==
    \/ DeployStart
    \/ DeployDescribeBlue
    \/ DeployTaskDef
    \/ DeployRegister
    \/ DeployPlan
    \/ DeployTargetGroups
    \/ DeployCreate
    \/ DeployListener

(* ----------------------------- rollback -------------------------------- *)
\* part_002 195-196: the options are the fields of the state file a deploy
\* has just written, or whatever the caller passes
RollbackStart ==
    \/ /\ cmd = "deploy" /\ pc = "done"
       /\ Begin("rollback", "rollback:deleteTaskSet",
                [EmptyArgv EXCEPT
                   !.greenTaskSetArn = outputFile.greenTaskSetArn,
                   !.greenTaskDefinitionArn = outputFile.greenTaskDefinitionArn,
                   !.isLoadBalancerPresent = outputFile.isLoadBalancerPresent,
                   !.isInitialDeployment = outputFile.isInitialDeployment,
                   !.blueTargetGroupArn = outputFile.blueTargetGroupArn,
                   !.fromFile = TRUE,
                   !.afterFailedDeploy = (outcome # "ok")],
                InitialState, snap)
    \/ \E g \in {Null, StrNull} \cup TaskSetArns :
          Begin("rollback", "rollback:deleteTaskSet",
                [EmptyArgv EXCEPT !.greenTaskSetArn = g], InitialState, NoSnap)

\* part_002 198-214
RollbackDeleteTaskSet ==
    /\ pc = "rollback:deleteTaskSet"
    /\ UNCHANGED <<taskDefs, rules, nextTs, nextTd, controller, cmd, argv, loc,
                   runs, snap, before>>
    /\ IF isStringNull(argv.greenTaskSetArn)
       THEN /\ taskSets' = taskSets
            /\ Step("rollback:deregister", outcome, log)
       ELSE \E ok \in BOOLEAN :
              LET done == ok /\ Exists(argv.greenTaskSetArn)
                  lg == Append(log, Call("deleteTaskSet", argv.greenTaskSetArn,
                                         Null, done))
              IN IF done
                 THEN /\ taskSets' = ApiDeleteTaskSet(argv.greenTaskSetArn)
                      /\ Step("rollback:deregister", outcome, lg)
                 ELSE /\ taskSets' = taskSets
                      /\ Step("done", "ExternalApiError", lg)

\* part_002 216-230
RollbackDeregister ==
    /\ pc = "rollback:deregister"
    /\ UNCHANGED <<taskSets, rules, nextTs, nextTd, controller, cmd, loc, runs,
                   snap, before>>
    /\ \E td \in Option(argv.fromFile, argv.greenTaskDefinitionArn,
                        {Null} \cup TaskDefArns) :
          /\ argv' = [argv EXCEPT !.greenTaskDefinitionArn = td]
          /\ IF isStringNull(td)
             THEN /\ taskDefs' = taskDefs
                  /\ Step("rollback:listener", outcome, log)
             ELSE \E ok \in BOOLEAN :
                    LET done == ok /\ td \in taskDefs
                        lg == Append(log, Call("deregisterTaskDefinition", td,
                                               Null, done))
                    IN IF done
                       THEN /\ taskDefs' = taskDefs \ {td}
                            /\ Step("rollback:listener", outcome, lg)
                       ELSE /\ taskDefs' = taskDefs
                            /\ Step("done", "ExternalApiError", lg)

\* a correction of the listener rule on initial deployments as well
RollbackCorrectsRuleAlways(a) == a.isLoadBalancerPresent

\* part_002 234: when the listener rule has to be corrected
RollbackCorrectsRule(a) == a.isLoadBalancerPresent /\ ~a.isInitialDeployment

\* part_002 232-257
RollbackListener ==
    /\ pc = "rollback:listener"
    /\ UNCHANGED <<taskSets, taskDefs, nextTs, nextTd, controller, cmd, loc,
                   runs, snap, before>>
    /\ \E lb \in Option(argv.fromFile, argv.isLoadBalancerPresent, BOOLEAN),
          initial \in Option(argv.fromFile, argv.isInitialDeployment, BOOLEAN),
          blue \in Option(argv.fromFile, argv.blueTargetGroupArn,
                          {Null, StrNull, TgArn("a"), TgArn("b")}) :
          LET a == [argv EXCEPT !.isLoadBalancerPresent = lb,
                                !.isInitialDeployment = initial,
                                !.blueTargetGroupArn = blue]
          IN /\ argv' = a
             /\ IF ~RollbackCorrectsRule(a)
                THEN rules' = rules /\ Step("done", "ok", log)
                ELSE IF isStringNull(a.blueTargetGroupArn)
                THEN rules' = rules
                     /\ Step("done", "MissingBlueTargetGroupError", log)
                ELSE \E ok \in BOOLEAN :
                       LET lg == Append(log, Call("modifyListenerRule", "live",
                                                  a.blueTargetGroupArn, ok))
                       IN IF ok
                          THEN /\ rules' = ApiModifyListenerRule("live",
                                              a.blueTargetGroupArn)
                               /\ Step("done", "ok", lg)
                          ELSE /\ rules' = rules
                               /\ Step("done", "ExternalApiError", lg)

Rollback ==
    \/ RollbackStart
    \/ RollbackDeleteTaskSet
    \/ RollbackDeregister
    \/ RollbackListener

(* ----------------------------- complete -------------------------------- *)
\* lib/vulcan.js 56-75: the first task set of the list that is PRIMARY
findBlueTaskSet ==
    LET primary == {i \in 1..MaxTaskSets : taskSets[TsName[i]].status = "PRIMARY"}
    IN IF primary = {} THEN Null
       ELSE TsName[CHOOSE i \in primary : \A j \in primary : i <= j]

\* number of task sets of the service (service.taskSets.length)
NumTaskSets == Cardinality({a \in TaskSetArns : Exists(a)})

\* part_001 67-68
CompleteStart ==
    \E g \in TaskSetArns, lb \in BOOLEAN,
       tg \in {Null, TgArn("a"), TgArn("b")} :
       Begin("complete", "complete:describe",
             [EmptyArgv EXCEPT !.greenTaskSetArn = g,
                               !.isLoadBalancerPresent = lb,
                               !.greenTargetGroupArn = tg],
             InitialState, NoSnap)

\* a complete that promotes the green task set before the listener rule
CompleteAfterPrimaryFirst(step, a, blueTaskSet) ==
    CASE step = "complete:describe" -> "complete:primary"
      [] step = "complete:primary" ->
            IF a.isLoadBalancerPresent THEN "complete:listener"
            ELSE IF ~isStringNull(blueTaskSet) THEN "complete:delete"
            ELSE "done"
      [] step = "complete:listener" ->
            IF ~isStringNull(blueTaskSet) THEN "complete:delete" ELSE "done"
      [] OTHER -> "done"

\* the step of complete that follows a given step (part_001 78-125)
CompleteAfter(step, a, blueTaskSet) ==
    CASE step = "complete:describe" ->
            IF a.isLoadBalancerPresent THEN "complete:listener"
            ELSE "complete:primary"
      [] step = "complete:listener" -> "complete:primary"
      [] step = "complete:primary" ->
            IF ~isStringNull(blueTaskSet) THEN "complete:delete" ELSE "done"
      [] OTHER -> "done"

\* what a step of complete leaves behind when its call succeeded
CompleteOk(step, lg) ==
    LET next == CompleteAfter(step, argv, loc'.blueTaskSet)
    IN Step(next, IF next = "done" THEN "ok" ELSE outcome, lg)

\* part_001 70-76; lib/vulcan.js 16-29
CompleteDescribe ==
    /\ pc = "complete:describe"
    /\ UNCHANGED <<clusterVars, cmd, argv, runs, snap, before>>
    /\ \E ok \in BOOLEAN, found \in BOOLEAN :
          IF ~ok THEN loc' = loc /\ Step("done", "ExternalApiError", log)
          ELSE IF ~found THEN loc' = loc /\ Step("done", "NotFoundError", log)
          ELSE /\ loc' = [loc EXCEPT !.blueTaskSet = findBlueTaskSet]
               /\ CompleteOk("complete:describe", log)

\* part_001 78-97
CompleteListener ==
    /\ pc = "complete:listener"
    /\ UNCHANGED <<taskSets, taskDefs, nextTs, nextTd, controller, cmd, argv,
                   loc, runs, snap, before>>
    /\ \E ok \in BOOLEAN :
          \* ELBv2 refuses a forward action without a target group
          LET tg == argv.greenTargetGroupArn
              done == ok /\ tg # Null
              lg == Append(log, Call("modifyListenerRule", "live", tg, done))
          IN IF done
             THEN /\ rules' = ApiModifyListenerRule("live", tg)
                  /\ CompleteOk("complete:listener", lg)
             ELSE /\ rules' = rules
                  /\ Step("done", "ExternalApiError", lg)

\* part_001 99-111
CompletePrimary ==
    /\ pc = "complete:primary"
    /\ UNCHANGED <<taskDefs, rules, nextTs, nextTd, controller, cmd, argv, loc,
                   runs, snap, before>>
    /\ \E ok \in BOOLEAN :
          LET done == ok /\ Exists(argv.greenTaskSetArn)
              lg == Append(log, Call("updateServicePrimaryTaskSet",
                                     argv.greenTaskSetArn, Null, done))
          IN IF done
             THEN /\ taskSets' = ApiUpdateServicePrimaryTaskSet(
                                    argv.greenTaskSetArn)
                  /\ CompleteOk("complete:primary", lg)
             ELSE /\ taskSets' = taskSets
                  /\ Step("done", "ExternalApiError", lg)

\* part_001 113-125
CompleteDelete ==
    /\ pc = "complete:delete"
    /\ UNCHANGED <<taskDefs, rules, nextTs, nextTd, controller, cmd, argv, loc,
                   runs, snap, before>>
    /\ \E ok \in BOOLEAN :
          LET done == ok /\ Exists(loc.blueTaskSet)
              lg == Append(log, Call("deleteTaskSet", loc.blueTaskSet, Null,
                                     done))
          IN IF done
             THEN /\ taskSets' = ApiDeleteTaskSet(loc.blueTaskSet)
                  /\ CompleteOk("complete:delete", lg)
             ELSE /\ taskSets' = taskSets
                  /\ Step("done", "ExternalApiError", lg)

Complete ==
    \/ CompleteStart
    \/ CompleteDescribe
    \/ CompleteListener
    \/ CompletePrimary
    \/ CompleteDelete

(* ----------------------------- bootstrap ------------------------------- *)
\* bootstrap.js has no catch block: an error leaves the handler at once
BootstrapThrow(err, lg) ==
    /\ outcome' = err
    /\ pc' = "done"
    /\ log' = lg
    /\ UNCHANGED <<state, outputFile, writes, libVars, monVars>>

\* bootstrap.js 362-371: the state file is written at the end of the handler
BootstrapFinish(st) ==
    /\ outcome' = "ok"
    /\ pc' = "done"
    /\ log' = log
    /\ state' = st
    /\ outputFile' = st
    /\ writes' = writes + 1
    /\ UNCHANGED <<libVars, monVars>>

\* bootstrap.js 120-121; Object.create(constants.stateTemplate) has no own
\* property until one is assigned (constants.js 48-52, bootstrap.js 283)
BootstrapStart ==
    Begin("bootstrap", "bootstrap:describe", EmptyArgv, <<>>, NoSnap)

\* sanity checks that accept every deployment controller
runSanityChecksAcceptAll(type) == "none"

\* lib/vulcan.js 36-48; the type is Null when the service description has no
\* deploymentController
runSanityChecks(type) ==
    IF type = "EXTERNAL" THEN "none" ELSE "UnsupportedControllerError"

\* a discovery that takes a task set for blue whenever there is one
BlueDiscoveryNeverAmbiguous(blueTaskSet, numTaskSets) ==
    IF blueTaskSet # Null THEN "blue"
    ELSE IF numTaskSets = 0 THEN "first"
    ELSE "promote"

\* bootstrap.js 147-183: what is done about the blue task set, given the
\* PRIMARY task set found (or Null) and service.taskSets.length
BlueDiscovery(blueTaskSet, numTaskSets) ==
    IF blueTaskSet # Null THEN "blue"
    ELSE CASE numTaskSets = 0 -> "first"
           [] numTaskSets = 1 -> "promote"
           [] OTHER           -> "AmbiguousPrimaryError"

\* bootstrap.js 124-183 up to the call that makes the only task set PRIMARY
BootstrapDescribe ==
    /\ pc = "bootstrap:describe"
    /\ UNCHANGED <<clusterVars, cmd, argv, runs, snap, before>>
    /\ \E ok \in BOOLEAN, found \in BOOLEAN :
          LET blueTaskSet == findBlueTaskSet
              discovery == BlueDiscovery(blueTaskSet, NumTaskSets)
          IN IF ~ok
             THEN loc' = loc /\ BootstrapThrow("ExternalApiError", log)
             ELSE IF ~found
             THEN /\ loc' = [loc EXCEPT !.service = "notFound"]
                  /\ BootstrapThrow("NotFoundError", log)
             ELSE IF runSanityChecks(controller) # "none"
             THEN /\ loc' = [loc EXCEPT !.service = "found"]
                  /\ BootstrapThrow(runSanityChecks(controller), log)
             ELSE IF discovery = "blue"
             THEN /\ loc' = [loc EXCEPT !.blueTaskSet = blueTaskSet,
                                        !.isBluePresent = TRUE,
                                        !.service = "found"]
                  /\ Step("bootstrap:taskDef", outcome, log)
             ELSE IF discovery = "first"
             THEN /\ loc' = [loc EXCEPT !.isBluePresent = FALSE,
                                        !.service = "found"]
                  /\ Step("bootstrap:taskDef", outcome, log)
             ELSE IF discovery = "promote"
             THEN /\ loc' = [loc EXCEPT !.isBluePresent = TRUE,
                                        !.service = "found"]
                  /\ Step("bootstrap:promote", outcome, log)
             ELSE /\ loc' = [loc EXCEPT !.service = "found"]
                  /\ BootstrapThrow(discovery, log)

\* bootstrap.js 160-174: service.taskSets[0] is the only task set
BootstrapPromote ==
    /\ pc = "bootstrap:promote"
    /\ UNCHANGED <<taskDefs, rules, nextTs, nextTd, controller, cmd, argv, loc,
                   runs, snap, before>>
    /\ \E ok \in BOOLEAN :
          LET sole == CHOOSE a \in TaskSetArns : Exists(a)
              lg == Append(log, Call("updateServicePrimaryTaskSet", sole, Null,
                                     ok))
          IN IF ok
             THEN /\ taskSets' = ApiUpdateServicePrimaryTaskSet(sole)
                  /\ Step("bootstrap:taskDef", outcome, lg)
             ELSE /\ taskSets' = taskSets
                  /\ BootstrapThrow("ExternalApiError", lg)

\* bootstrap.js 190-215: "file", "inherit", or the error; blueTaskSet is
\* still null after the only task set was made PRIMARY
BootstrapTaskDefinition(fileGiven, isBlueTaskSetPresent, blueTaskSet) ==
    IF fileGiven THEN "file"
    ELSE IF isBlueTaskSetPresent
         THEN IF blueTaskSet = Null THEN "TypeError" ELSE "inherit"
         ELSE "MissingInputError"

\* bootstrap.js 186-239; lib/vulcan.js 199-230
BootstrapTaskDef ==
    /\ pc = "bootstrap:taskDef"
    /\ UNCHANGED <<clusterVars, cmd, argv, loc, runs, snap, before>>
    /\ \E fileGiven \in BOOLEAN, ok \in BOOLEAN,
          images \in {"none", "UnmatchedContainerError", "MissingImageError"} :
          LET src == BootstrapTaskDefinition(fileGiven, loc.isBluePresent,
                                             loc.blueTaskSet)
          IN IF src \notin {"file", "inherit"}
             THEN BootstrapThrow(src, log)
             ELSE IF ~ok
             THEN BootstrapThrow(IF src = "file" THEN "FileError"
                                 ELSE "ExternalApiError", log)
             ELSE IF images # "none"
             THEN BootstrapThrow(images, log)
             ELSE Step("bootstrap:plan", outcome, log)

\* bootstrap.js 244-263: the green task set, or the error.  The file is read
\* from argv.greenTaskSet, an option that does not exist, and path.resolve
\* throws on undefined
BootstrapTaskSet(fileGiven, blueTaskSet) ==
    IF fileGiven THEN "TypeError"
    ELSE IF blueTaskSet = Null THEN "MissingInputError"
    ELSE "blue"

\* bootstrap.js 265-275 with utils/obj.js 14-24, for the loadBalancers key:
\* a list is truthy even when it is empty, and a key that is taken from
\* neither object stays the null of the prototype, which is not written
overriddenGreenTaskSet(greenTaskSet, overrideGreenTaskSet) ==
    IF overrideGreenTaskSet.given /\ overrideGreenTaskSet.hasLbKey
    THEN ReadTaskSet(overrideGreenTaskSet)
    ELSE IF greenTaskSet.hasLbKey THEN greenTaskSet
    ELSE NoSpec

\* bootstrap.js 316 and 349: finalGreenTaskSet.loadBalancers[0]
\* .targetGroupArn = greenTargetGroupArn, on a list that has a first binding
WithGreenTargetGroup(taskSet, greenTargetGroupArn) ==
    [taskSet EXCEPT !.lbs = [@ EXCEPT ![1] = greenTargetGroupArn]]

\* bootstrap.js 283-285, 301, 329, 355: the own properties of stateObj
BootstrapState(isBlueTaskSetPresent, isLoadBalancer, topology) ==
    [ isFirstDeployment     |-> ~isBlueTaskSetPresent,
      isLoadBalancerPresent |-> isLoadBalancer,
      isCanaryEligible      |-> (topology = "blueGreen") ]

\* bootstrap.js 244-312 and 333-372. The rolling branch with load balancer
\* reads argv.targetGroups (338-347), which yargs never sets: the option is
\* target-group-names (77-83), so what the caller wrote there is not read
BootstrapPlan ==
    /\ pc = "bootstrap:plan"
    /\ UNCHANGED <<clusterVars, cmd, runs, snap, before>>
    /\ \E fileGiven \in BOOLEAN, override \in TaskSetFiles,
          isBlueGreen \in BOOLEAN, targetGroupNames \in TargetGroupsInputs :
          LET got == BootstrapTaskSet(fileGiven, loc.blueTaskSet)
              lb  == isLoadBalancerPresent(Described(loc.blueTaskSet))
              top == TopologyOf(lb = "true", isBlueGreen, loc.isBluePresent)
              overridden == overriddenGreenTaskSet(Described(loc.blueTaskSet),
                                                   override)
              green == taskSets[loc.blueTaskSet].lbs[1]
          IN /\ (got = "blue" /\ top = "rollingLB") \/ targetGroupNames = Null
             /\ got = "blue" \/ override = NoFile
             /\ argv' = [argv EXCEPT !.isBlueGreen = isBlueGreen,
                                     !.targetGroups = targetGroupNames,
                                     !.greenTaskSetFile = fileGiven,
                                     !.overrideGreenTaskSetFile = override]
             /\ IF got # "blue"
                THEN loc' = loc /\ BootstrapThrow(got, log)
                ELSE IF lb = "throw"
                THEN loc' = [loc EXCEPT
                                !.greenTaskSet = Described(loc.blueTaskSet),
                                !.finalGreenTaskSet = overridden]
                     /\ BootstrapThrow("UnsupportedTopologyError", log)
                ELSE IF top = "rollingLB" /\ Len(overridden.lbs) = 0
                THEN /\ loc' = [loc EXCEPT
                                  !.greenTaskSet = Described(loc.blueTaskSet),
                                  !.finalGreenTaskSet = overridden]
                     /\ BootstrapThrow("TypeError", log)
                ELSE /\ loc' = [loc EXCEPT
                                  !.greenTaskSet = Described(loc.blueTaskSet),
                                  !.finalGreenTaskSet =
                                     IF top = "rollingLB"
                                     THEN WithGreenTargetGroup(overridden, green)
                                     ELSE overridden,
                                  !.isLoadBalancer = (lb = "true"),
                                  !.topology = top,
                                  !.greenTargetGroupArn =
                                     IF top = "rollingLB" THEN green ELSE Null]
                     /\ IF top = "blueGreen"
                        THEN Step("bootstrap:targetGroups", outcome, log)
                        ELSE BootstrapFinish(
                                BootstrapState(loc.isBluePresent, lb = "true",
                                               top))

\* bootstrap.js 314-332 and 362-372; lib/vulcan.js 115-162, 238-249
BootstrapTargetGroups ==
    /\ pc = "bootstrap:targetGroups"
    /\ UNCHANGED <<clusterVars, cmd, runs, snap, before>>
    /\ \E targetGroupNames \in TargetGroupsInputs, ok \in BOOLEAN,
          matches \in 0..2 :
          LET bg == getTargetGroupsWithBlueGreenEnabled(targetGroupNames,
                        Described(loc.blueTaskSet))
          IN /\ argv' = [argv EXCEPT !.targetGroups = targetGroupNames]
             /\ IF bg.err # "none"
                THEN loc' = loc /\ BootstrapThrow(bg.err, log)
                ELSE IF ~ok
                THEN loc' = loc /\ BootstrapThrow("ExternalApiError", log)
                ELSE IF matches # 1
                THEN loc' = loc /\ BootstrapThrow("NotFoundError", log)
                ELSE IF Len(loc.finalGreenTaskSet.lbs) = 0
                THEN loc' = loc /\ BootstrapThrow("TypeError", log)
                ELSE /\ loc' = [loc EXCEPT
                                  !.greenTargetGroupArn = TgArn(bg.green),
                                  !.blueTargetGroupArn = TgArn(bg.blue),
                                  !.finalGreenTaskSet =
                                     WithGreenTargetGroup(
                                        loc.finalGreenTaskSet, TgArn(bg.green))]
                     /\ BootstrapFinish(
                           BootstrapState(loc.isBluePresent, loc.isLoadBalancer,
                                          loc.topology))

Bootstrap ==
    \/ BootstrapStart
    \/ BootstrapDescribe
    \/ BootstrapPromote
    \/ BootstrapTaskDef
    \/ BootstrapPlan
    \/ BootstrapTargetGroups

(* ------------------------------- clean --------------------------------- *)
\* lib/vulcan.js 294-303: the ARNs of the ACTIVE task sets, in list order
RECURSIVE ActiveFrom(_)
ActiveFrom(i) ==
    IF i > MaxTaskSets THEN <<>>
    ELSE IF taskSets[TsName[i]].status = "ACTIVE"
         THEN <<TsName[i]>> \o ActiveFrom(i + 1)
         ELSE ActiveFrom(i + 1)

\* part_004 47-48
CleanStart == Begin("clean", "clean:describe", EmptyArgv, InitialState, NoSnap)

\* part_004 50-62; lib/vulcan.js 279-304: without task sets the result is
\* null and part_004 60 reads its length
CleanDescribe ==
    /\ pc = "clean:describe"
    /\ UNCHANGED <<clusterVars, cmd, argv, runs, snap, before>>
    /\ \E ok \in BOOLEAN, found \in BOOLEAN :
          IF ~ok THEN loc' = loc /\ Step("done", "ExternalApiError", log)
          ELSE IF ~found THEN loc' = loc /\ Step("done", "NotFoundError", log)
          ELSE IF NumTaskSets = 0
          THEN loc' = loc /\ Step("done", "TypeError", log)
          ELSE /\ loc' = [loc EXCEPT !.todo = ActiveFrom(1)]
               /\ IF ActiveFrom(1) = <<>> THEN Step("done", "ok", log)
                  ELSE Step("clean:delete", outcome, log)

\* part_004 63-78: one turn of the loop
CleanDelete ==
    /\ pc = "clean:delete"
    /\ UNCHANGED <<taskDefs, rules, nextTs, nextTd, controller, cmd, argv,
                   runs, snap, before>>
    /\ \E ok \in BOOLEAN :
          LET activeTaskSet == Head(loc.todo)
              lg == Append(log, Call("deleteTaskSet", activeTaskSet, Null, ok))
          IN IF ok
             THEN /\ taskSets' = ApiDeleteTaskSet(activeTaskSet)
                  /\ loc' = [loc EXCEPT !.todo = Tail(loc.todo)]
                  /\ IF Tail(loc.todo) = <<>> THEN Step("done", "ok", lg)
                     ELSE Step("clean:delete", outcome, lg)
             ELSE /\ taskSets' = taskSets
                  /\ loc' = loc
                  /\ Step("done", "ExternalApiError", lg)

Clean ==
    \/ CleanStart
    \/ CleanDescribe
    \/ CleanDelete

(* ------------------------------- canary -------------------------------- *)
\* the values of --percent that are tried
Percents == {0, 30, 100, 150}

\* the values of --blue-target-group and --green-target-group: an ARN or a
\* name
TargetGroupOptions == {TgArn("a"), TgArn("b"), "a", "b"}

\* String.prototype.startsWith('arn:') on a target group option
StartsWithArn(s) == s \in TgArns

\* what JavaScript holds for a promise that has not been awaited
PendingPromise == "[object Promise]"

\* canary.js 59-77: the ARN as it was written, or else what
\* getTargetGroupArnFromName returns, which the handler does not await
CanaryTargetGroupArn(option) ==
    IF StartsWithArn(option) THEN option ELSE PendingPromise

\* a forward action that gives the percentage to blue
DivideBlueGetsPercent(blue, green, percent) ==
    <<[tg |-> green, weight |-> 100 - percent], [tg |-> blue, weight |-> percent]>>

\* utils/aws.js 256-294: the forward action with the two weights
Divide(blue, green, percent) ==
    <<[tg |-> green, weight |-> percent], [tg |-> blue, weight |-> 100 - percent]>>

\* ELBv2 accepts weights from 0 to 999
WeightsAccepted(actions) ==
    \A i \in 1..Len(actions) : actions[i].weight \in 0..999

\* canary.js 56-57
CanaryStart == Begin("canary", "canary:divide", EmptyArgv, InitialState, NoSnap)

\* canary.js 59-92: a name is resolved by a call that is not awaited, so the
\* value handed to divideListenerRule is a promise, which the SDK refuses
CanaryDivide ==
    /\ pc = "canary:divide"
    /\ UNCHANGED <<taskSets, taskDefs, nextTs, nextTd, controller, cmd, loc,
                   runs, snap, before>>
    /\ \E blue \in TargetGroupOptions, green \in TargetGroupOptions,
          percent \in Percents, ok \in BOOLEAN :
          LET done == /\ ok
                      /\ StartsWithArn(blue) /\ StartsWithArn(green)
                      /\ WeightsAccepted(Divide(blue, green, percent))
              lg == Append(log, Call("divideListenerRule",
                                     CanaryTargetGroupArn(blue),
                                     CanaryTargetGroupArn(green), done))
          IN /\ argv' = [argv EXCEPT !.blueTargetGroupArn = blue,
                                     !.greenTargetGroupArn = green,
                                     !.percent = percent]
             /\ IF done
                THEN /\ rules' = [rules EXCEPT
                                    !["live"] = Divide(blue, green, percent)]
                     /\ Step("done", "ok", lg)
                ELSE /\ rules' = rules
                     /\ Step("done", "ExternalApiError", lg)

Canary ==
    \/ CanaryStart
    \/ CanaryDivide

Next == Deploy \/ Rollback \/ Complete \/ Bootstrap \/ Clean \/ Canary
Spec == Init /\ [][Next]_vars

(* --------------- library functions applied on their own ---------------- *)
\* the lists of target group names a caller may write
NameLists == {<<>>, <<"a">>, <<"a", "b">>, <<"b", "a">>, <<"b", "c">>,
              <<"a", "a">>, <<"c", "a", "b">>}

\* a call is pending: the function has its arguments and has not run yet
Pending(f) == fn = f /\ result = <<>>
\* a call has returned or thrown
Returned(f) == fn = f /\ Len(result) = 1
\* the function runs; the cluster and the handlers are not involved
Return(value) ==
    /\ result' = <<value>>
    /\ UNCHANGED <<clusterVars, handlerVars, fn, args, monVars>>

\* arguments of getTargetGroupsWithBlueGreenEnabled: the names the caller
\* wrote and the task set description of blue, bound to one target group
BlueGreenEnabledArgs ==
    [names : NameLists, blueName : TgNames]

ApplyGetTargetGroupsWithBlueGreenEnabled ==
    /\ Pending("getTargetGroupsWithBlueGreenEnabled")
    /\ Return(getTargetGroupsWithBlueGreenEnabled(
                 JoinComma(args.names),
                 [hasLbKey |-> TRUE, lbs |-> <<TgArn(args.blueName)>>]))

\* arguments of isLoadBalancerPresent: a task set without the loadBalancers
\* key, or with a list of bindings
BindingLists == UNION {[1..n -> TgArns] : n \in 0..MaxBindings}
IsLoadBalancerPresentArgs ==
    {[hasLbKey |-> FALSE, lbs |-> <<>>]}
       \cup {[hasLbKey |-> TRUE, lbs |-> l] : l \in BindingLists}

ApplyIsLoadBalancerPresent ==
    /\ Pending("isLoadBalancerPresent")
    /\ Return(isLoadBalancerPresent(args))

\* arguments of the task definition resolution: the --task-definition-file
\* option, the fields the file holds, and what is known about blue
TaskDefinitionFileKeys ==
    {{"family", "containerDefinitions"}, DescribedTaskDefinitionKeys}
GetTaskDefinitionArgs ==
    [isBluePresent : BOOLEAN, file : {Null, StrNull, "td.json"},
     fileKeys : TaskDefinitionFileKeys]
\* bootstrap.js 147-183 leaves blueTaskSet null when there is no task set
\* and when the only task set was just made PRIMARY
BootstrapTaskDefinitionArgs ==
    {a \in [isBluePresent : BOOLEAN, file : {Null, StrNull, "td.json"},
            fileKeys : TaskDefinitionFileKeys,
            blueTaskSet : {Null} \cup TaskSetArns] :
        a.blueTaskSet # Null => a.isBluePresent}

ApplyGetTaskDefinition ==
    /\ Pending("getTaskDefinition")
    /\ LET source == getTaskDefinition(args.isBluePresent, args.file)
       IN Return([source |-> source,
                  keys |-> GetTaskDefinitionKeys(source, args.fileKeys)])

ApplyBootstrapTaskDefinition ==
    /\ Pending("bootstrapTaskDefinition")
    /\ LET source == BootstrapTaskDefinition(~isStringNull(args.file),
                         args.isBluePresent, args.blueTaskSet)
       IN Return([source |-> source,
                  keys |-> BootstrapTaskDefinitionKeys(source,
                                                       args.fileKeys)])

\* arguments of overrideObject: a template with two keys, as constants.js
\* 9-27 declares them, and objects that hold some of these keys and of a key
\* the template does not have, each with a text that may be empty
ObjectKeys == {"family", "taskRoleArn", "revision"}
ObjectValues == {"v1", "v2", ""}
Objects == UNION {[keys -> ObjectValues] : keys \in SUBSET ObjectKeys}
Template == [key \in {"family", "taskRoleArn"} |-> Null]
OverrideObjectArgs == [obj : Objects, override : Objects]

ApplyOverrideObject ==
    /\ Pending("overrideObject")
    /\ Return(overrideObject(Template, args.obj, args.override))

\* arguments of assembleTaskDefinition: the container definitions of the
\* task definition and the entries of the image definitions file, whose
\* image may be missing, empty, or the text "null"
ContainerNames == {"web", "db"}
ContainerDefinitions ==
    UNION {[1..n -> [name : ContainerNames, image : {"img:0"}]] :
              n \in 1..MaxContainers}
ImageDefinitions ==
    UNION {[1..n -> [name : ContainerNames,
                     image : {"img:1", "", Null, StrNull}]] :
              n \in 0..MaxContainers}
AssembleTaskDefinitionArgs ==
    [containerDefinitions : ContainerDefinitions,
     imageDefinitions : ImageDefinitions]

ApplyAssembleTaskDefinition ==
    /\ Pending("assembleTaskDefinition")
    /\ Return(assembleTaskDefinition(args.containerDefinitions,
                                     args.imageDefinitions))

\* the service no handler has touched
Untouched ==
    /\ HandlerInit
    /\ controller = "EXTERNAL"
    /\ \A a \in TaskSetArns : taskSets[a] = AbsentTaskSet

LibInit ==
    /\ Untouched
    /\ MonitorIdle
    /\ result = <<>>
    /\ \/ fn = "getTargetGroupsWithBlueGreenEnabled"
          /\ args \in BlueGreenEnabledArgs
       \/ fn = "isLoadBalancerPresent"
          /\ args \in IsLoadBalancerPresentArgs
       \/ fn = "getTaskDefinition"
          /\ args \in GetTaskDefinitionArgs
       \/ fn = "overrideObject"
          /\ args \in OverrideObjectArgs
       \/ fn = "assembleTaskDefinition"
          /\ args \in AssembleTaskDefinitionArgs
       \/ fn = "bootstrapTaskDefinition"
          /\ args \in BootstrapTaskDefinitionArgs

LibNext ==
    \/ ApplyGetTargetGroupsWithBlueGreenEnabled
    \/ ApplyIsLoadBalancerPresent
    \/ ApplyGetTaskDefinition
    \/ ApplyOverrideObject
    \/ ApplyAssembleTaskDefinition
    \/ ApplyBootstrapTaskDefinition

LibSpec == LibInit /\ [][LibNext]_vars

(* ------------- wait and monitor: polling under a timeout --------------- *)
\* the seconds that a number of time units stands for
Seconds(units) == 5 * units

\* the three handlers: wait (cmd/canary.js 275-308), the earlier wait with
\* its --check flag (cmd/canary.js 162-207) and monitor (part_003 136-171)
MonitorCommands == {"wait", "waitCheck", "monitor"}

\* a rejected promise that nobody handles ends the process with an error on
\* the runtimes that throw, and only prints a warning on the others
UnhandledRejections == {"throw", "warn"}

\* the values of --poll-interval that are tried, from the default of ten
\* seconds on, and those of --timeout
PollIntervals == 2..MaxPollInterval
Timeouts == 1..MaxTimeout

\* the options of an invocation; only the earlier wait has --check
MonitorArgs ==
    {a \in [command : MonitorCommands, check : BOOLEAN,
             pollInterval : PollIntervals, timeout : Timeouts,
             unhandledRejections : UnhandledRejections] :
        a.check => a.command = "waitCheck"}

\* the handler fails when the deployment leaves the steady state (monitor,
\* wait --check) instead of waiting for it to be reached (wait)
Watching(a) == a.command = "monitor" \/ (a.command = "waitCheck" /\ a.check)

\* what a describeTaskSet call finds: the stabilityStatus of the task set,
\* or no task set
Observations == {"STEADY_STATE", "PENDING", Null}

Event(ev, t, tick, status) ==
    [ev |-> ev, t |-> t, tick |-> tick, status |-> status]

\* a callback that clears no timer when the task set is steady
PollCallbackKeepsPolling(a, status) ==
    [clear |-> FALSE, throw |-> "none", concluded |-> "none"]

\* the callback of setInterval once describeTaskSet has returned: the timers
\* it clears, the error it throws and the conclusion it logs
\* (cmd/canary.js 283-300 and 169-191, part_003 144-162)
PollCallback(a, status) ==
    IF status = Null
    THEN [clear |-> FALSE,
          throw |-> IF a.command = "waitCheck" THEN "TypeError"
                    ELSE "LookupError",
          concluded |-> "none"]
    ELSE IF ~Watching(a) /\ status = "STEADY_STATE"
    THEN [clear |-> TRUE, throw |-> "none", concluded |-> "steady"]
    ELSE IF Watching(a) /\ status # "STEADY_STATE"
    THEN [clear |-> TRUE, throw |-> "UnhealthyError", concluded |-> "unhealthy"]
    ELSE [clear |-> FALSE, throw |-> "none", concluded |-> "none"]

\* the process ends with exit code 0 once no timer is scheduled and no call
\* is outstanding
Settle(timers, outstanding) ==
    IF ~timers /\ outstanding = {} THEN "ok" ELSE "running"

TickDue ==
    /\ interval
    /\ now > 0
    /\ now % mon.pollInterval = 0
    /\ \A i \in 1..Len(events) : ~(events[i].ev = "tick" /\ events[i].t = now)
\* a timeout that fires one unit of time early
TimeoutDueEarly == timeoutTimer /\ now + 1 >= mon.timeout
TimeoutDue == timeoutTimer /\ now = mon.timeout

MonitorFrame == UNCHANGED <<clusterVars, handlerVars, libVars>>

\* cmd/canary.js 275-308, 162-207 and part_003 136-171: the handler schedules
\* the two timers and returns
WaitStart ==
    /\ exit = "idle"
    /\ exit' = "running"
    /\ interval' = TRUE
    /\ timeoutTimer' = TRUE
    /\ UNCHANGED <<mon, now, calls, events>>
    /\ MonitorFrame

\* time passes while a timer is scheduled; a timer that is due fires first
Elapse ==
    /\ exit = "running"
    /\ interval \/ timeoutTimer
    /\ now < mon.timeout
    /\ ~TickDue /\ ~TimeoutDue
    /\ now' = now + 1
    /\ UNCHANGED <<mon, interval, timeoutTimer, calls, exit, events>>
    /\ MonitorFrame

\* the interval fires: the callback issues describeTaskSet and awaits it
\* (cmd/canary.js 277-282)
Tick ==
    /\ exit = "running"
    /\ TickDue
    /\ calls' = calls \cup {now}
    /\ events' = Append(events, Event("tick", now, now, Null))
    /\ UNCHANGED <<mon, now, interval, timeoutTimer, exit>>
    /\ MonitorFrame

\* a describeTaskSet call returns and the callback that awaited it goes on
\* (cmd/canary.js 283-300)
Respond ==
    /\ exit = "running"
    /\ \E c \in calls, status \in Observations :
          LET did  == PollCallback(mon, status)
              dies == did.throw # "none" /\ mon.unhandledRejections = "throw"
              seen == Append(events, Event("seen", now, c, status))
          IN /\ events' = IF did.concluded = "none" THEN seen
                           ELSE Append(seen, Event(did.concluded, now, c, status))
             /\ interval' = (interval /\ ~did.clear /\ ~dies)
             /\ timeoutTimer' = (timeoutTimer /\ ~did.clear /\ ~dies)
             /\ calls' = IF dies THEN {} ELSE calls \ {c}
             /\ exit' = IF dies THEN did.throw
                        ELSE Settle(interval' \/ timeoutTimer', calls')
    /\ UNCHANGED <<mon, now>>
    /\ MonitorFrame

\* the timeout fires (cmd/canary.js 302-307 and 193-206, part_003 164-169):
\* wait throws out of the callback, which ends the process; monitor and
\* wait --check log that the deployment has been healthy
Timeout ==
    /\ exit = "running"
    /\ TimeoutDue
    /\ interval' = FALSE
    /\ timeoutTimer' = FALSE
    /\ IF Watching(mon)
       THEN /\ events' = Append(events, Event("healthy", now, 0, Null))
            /\ calls' = calls
            /\ exit' = Settle(FALSE, calls)
       ELSE /\ events' = Append(events, Event("timedOut", now, 0, Null))
            /\ calls' = {}
            /\ exit' = "TimeoutError"
    /\ UNCHANGED <<mon, now>>
    /\ MonitorFrame

MonitorInit ==
    /\ Untouched
    /\ LibIdle
    /\ mon \in MonitorArgs
    /\ now = 0
    /\ interval = FALSE
    /\ timeoutTimer = FALSE
    /\ calls = {}
    /\ exit = "idle"
    /\ events = <<>>

MonitorNext ==
    \/ WaitStart
    \/ Elapse
    \/ Tick
    \/ Respond
    \/ Timeout

MonitorSpec == MonitorInit /\ [][MonitorNext]_vars
(* ------------------------ what a run has done --------------------------- *)
\* the calls of one kind this invocation has issued with success
Succeeded(op) == {i \in 1..Len(log) : log[i].op = op /\ log[i].ok}
\* the calls of one kind this invocation has issued at all
Issued(op) == {i \in 1..Len(log) : log[i].op = op}
Failed == pc = "done" /\ outcome # "ok"
Present(v) == v # Null /\ v # StrNull

(* C1: whenever deploy fails, the state record it writes has                *)
(* greenTaskDefinitionArn set iff a task definition was registered and      *)
(* greenTaskSetArn set iff a green task set was created, also when the      *)
(* failing step is the listener rule modification after the creation.       *)
C1_FailedDeployRecordIsExact ==
    (cmd = "deploy" /\ Failed) =>
        /\ writes = 1
        /\ Present(outputFile.greenTaskDefinitionArn)
              <=> Succeeded("registerTaskDefinition") # {}
        /\ Present(outputFile.greenTaskSetArn)
              <=> Succeeded("createTaskSet") # {}

(* C2: a rollback that is fed the state record of a failed deploy unchanged *)
(* leaves the cluster with the task sets, task definitions, primary task    *)
(* set and listener rules it had before that deploy.                        *)
C2_RollbackOfFailedDeployRestores ==
    (cmd = "rollback" /\ argv.fromFile /\ argv.afterFailedDeploy
       /\ pc = "done" /\ outcome = "ok") => Topology = before

(* C3: a rollback with a load balancer, not an initial deployment and no    *)
(* blue target group fails with MissingBlueTargetGroupError and has not     *)
(* deleted the green task set nor deregistered the green task definition.   *)
C3_MissingBlueTargetGroupDeletesNothing ==
    (cmd = "rollback" /\ argv.isLoadBalancerPresent
       /\ ~argv.isInitialDeployment
       /\ isStringNull(argv.blueTargetGroupArn)) =>
        /\ Succeeded("deleteTaskSet") = {}
        /\ Succeeded("deregisterTaskDefinition") = {}
        /\ (pc = "done" /\ \A i \in 1..Len(log) : log[i].ok) =>
              outcome = "MissingBlueTargetGroupError"

(* C4: deploy writes the state record on every exit path: once, with the    *)
(* state as it is then, after a successful run and after a failed step, and *)
(* a failed step ends the command with the error.                           *)
C4_DeployAlwaysWritesState ==
    cmd = "deploy" =>
        /\ pc = "done" => (writes = 1 /\ outputFile = state
                             /\ outcome # "running")
        /\ pc # "done" => (writes = 0 /\ outcome = "running")
        /\ (\E i \in 1..Len(log) : ~log[i].ok) => (pc = "done" /\ outcome # "ok")
C4_Witness ==
    /\ cmd = "deploy" /\ Failed /\ writes = 1
    /\ Succeeded("createTaskSet") # {}
    /\ Issued("modifyListenerRule") # {}

(* C5: when a step of bootstrap fails, the state record is still written   *)
(* to the state output file before the error leaves the handler.            *)
C5_FailedBootstrapWritesState ==
    (cmd = "bootstrap" /\ Failed) => writes >= 1

(* C6: a rollback that runs to its end has deleted the green task set iff   *)
(* greenTaskSetArn is present, deregistered the green task definition iff   *)
(* greenTaskDefinitionArn is present, and set the live listener rule to     *)
(* 100% blueTargetGroupArn iff isLoadBalancerPresent and not                *)
(* isInitialDeployment; otherwise the listener rules are as they were, and  *)
(* no rollback, finished or not, touches anything else.                     *)
C6_RollbackEffects ==
    cmd = "rollback" =>
        /\ (pc = "done" /\ outcome = "ok") =>
              /\ Succeeded("deleteTaskSet") # {}
                    <=> Present(argv.greenTaskSetArn)
              /\ Succeeded("deregisterTaskDefinition") # {}
                    <=> Present(argv.greenTaskDefinitionArn)
              /\ Succeeded("modifyListenerRule") # {}
                    <=> (argv.isLoadBalancerPresent
                           /\ ~argv.isInitialDeployment)
        /\ taskSets = [a \in TaskSetArns |->
                         IF Succeeded("deleteTaskSet") # {}
                            /\ a = argv.greenTaskSetArn
                         THEN AbsentTaskSet ELSE snap.taskSets[a]]
        /\ taskDefs = IF Succeeded("deregisterTaskDefinition") # {}
                      THEN snap.taskDefs \ {argv.greenTaskDefinitionArn}
                      ELSE snap.taskDefs
        /\ rules = IF Succeeded("modifyListenerRule") # {}
                   THEN [snap.rules EXCEPT
                           !["live"] = Forward(argv.blueTargetGroupArn)]
                   ELSE snap.rules
C6_Witness ==
    /\ cmd = "rollback" /\ pc = "done" /\ outcome = "ok"
    /\ Succeeded("deleteTaskSet") # {}
    /\ Succeeded("deregisterTaskDefinition") # {}
    /\ Succeeded("modifyListenerRule") # {}
    /\ rules # snap.rules

\* the PRIMARY task set when the invocation started
BlueAtStart ==
    LET primary == {a \in TaskSetArns : snap.taskSets[a].status = "PRIMARY"}
    IN IF primary = {} THEN Null ELSE CHOOSE a \in primary : TRUE

\* the calls of a complete that runs to its end
CompleteCalls ==
    (IF argv.isLoadBalancerPresent
     THEN <<[op |-> "modifyListenerRule", a1 |-> "live",
             a2 |-> argv.greenTargetGroupArn]>>
     ELSE <<>>)
    \o <<[op |-> "updateServicePrimaryTaskSet", a1 |-> argv.greenTaskSetArn,
          a2 |-> Null]>>
    \o (IF BlueAtStart # Null
        THEN <<[op |-> "deleteTaskSet", a1 |-> BlueAtStart, a2 |-> Null]>>
        ELSE <<>>)

(* C7: complete first cuts the live listener rule over to the green target  *)
(* group (only with a load balancer), then makes the green task set         *)
(* primary, then deletes the blue task set (only if there was one); a step  *)
(* is issued only after all earlier ones succeeded.                         *)
C7_CompleteOrder ==
    cmd = "complete" =>
        /\ Len(log) <= Len(CompleteCalls)
        /\ \A i \in 1..Len(log) :
              /\ log[i].op = CompleteCalls[i].op
              /\ log[i].a1 = CompleteCalls[i].a1
              /\ log[i].a2 = CompleteCalls[i].a2
              /\ i < Len(log) => log[i].ok
        /\ (pc = "done" /\ outcome = "ok") =>
              (Len(log) = Len(CompleteCalls) /\ \A i \in 1..Len(log) : log[i].ok)
C7_Witness ==
    /\ cmd = "complete" /\ pc = "done" /\ outcome = "ok"
    /\ Len(log) = 3

(* C8: complete with a load balancer but without a green target group ARN   *)
(* fails with a fatal misuse error and issues no listener modification, no  *)
(* primary task set update and no task set deletion.                        *)
C8_CompleteWithoutGreenTargetGroup ==
    (cmd = "complete" /\ argv.isLoadBalancerPresent
       /\ isStringNull(argv.greenTargetGroupArn)) =>
        /\ Issued("modifyListenerRule") = {}
        /\ Issued("updateServicePrimaryTaskSet") = {}
        /\ Issued("deleteTaskSet") = {}
        /\ pc = "done" => outcome # "ok"

HasLoadBalancer ==
    IF cmd = "deploy" /\ ~loc.isBluePresent
    THEN loc.greenTaskSet.hasLbKey /\ Len(loc.greenTaskSet.lbs) = 1
    ELSE Len(snap.taskSets[loc.blueTaskSet].lbs) = 1
BlueExists ==
    IF cmd = "deploy" THEN Present(argv.blueTaskSetArn)
    ELSE BlueAtStart # Null

\* the topology decision of C10, for a run that has decided
DecisionIsRight ==
    /\ loc.topology \in {"rolling", "blueGreen", "rollingLB"}
    /\ loc.topology = "rolling" <=> ~HasLoadBalancer
    /\ loc.topology = "blueGreen"
          <=> (HasLoadBalancer /\ argv.isBlueGreen /\ BlueExists)
RecordIsRight ==
    /\ outputFile.isCanaryEligible <=> loc.topology = "blueGreen"
    /\ outputFile.isLoadBalancerPresent
          <=> loc.topology \in {"blueGreen", "rollingLB"}
Decided == cmd \in {"deploy", "bootstrap"} /\ loc.topology # "none"

C11_BlueGreenResolution ==
    Returned("getTargetGroupsWithBlueGreenEnabled") =>
        LET names == args.names
            got   == result[1]
        IN IF Len(names) < 2
           THEN got.err = "InsufficientTargetGroupsError"
           ELSE IF args.blueName \notin {names[1], names[2]}
           THEN got.err = "TargetGroupMismatchError"
           ELSE /\ got.err = "none"
                /\ got.blue = args.blueName
                /\ {got.blue, got.green} = {names[1], names[2]}
C11_Witness ==
    /\ Returned("getTargetGroupsWithBlueGreenEnabled")
    /\ args.names = <<"a", "b">>
    /\ args.blueName = "b"
    /\ result[1] = [err |-> "none", green |-> "a", blue |-> "b"]

\* the target group bound to the blue task set when the invocation started
BoundToBlue == snap.taskSets[loc.blueTaskSet].lbs[1]

(* C12: in the rolling outcome with load balancer one target group is used  *)
(* for green: the ARN of the name the caller supplied when there is one,    *)
(* otherwise the group bound to blue when blue exists; with no name and no  *)
(* blue the workflow fails with InsufficientTargetGroupsError.              *)
C12_RollingTargetGroup ==
    (cmd \in {"deploy", "bootstrap"} /\ loc.topology = "rollingLB"
       /\ pc \in {"deploy:create", "deploy:listener", "done"}) =>
        IF argv.targetGroups # Null
        THEN /\ outcome # "InsufficientTargetGroupsError"
             /\ loc.greenTargetGroupArn # Null =>
                   loc.greenTargetGroupArn
                      = TgArn(SplitComma(argv.targetGroups)[1])
        ELSE IF BlueExists
        THEN /\ outcome # "InsufficientTargetGroupsError"
             /\ loc.greenTargetGroupArn = BoundToBlue
        ELSE outcome = "InsufficientTargetGroupsError"

(* C13: isLoadBalancerPresent returns true iff the task set has exactly one *)
(* load balancer binding, false iff it has none (or no list of bindings),   *)
(* and for more than one binding it fails with the unsupported topology     *)
(* error and returns no boolean.                                            *)
C13_IsLoadBalancerPresent ==
    Returned("isLoadBalancerPresent") =>
        LET bindings == IF args.hasLbKey THEN Len(args.lbs) ELSE 0
        IN /\ result[1] \in {"true", "false", "throw"}
           /\ result[1] = "true" <=> bindings = 1
           /\ result[1] = "false" <=> bindings = 0
           /\ result[1] = "throw" <=> bindings > 1
C13_Witness ==
    /\ Returned("isLoadBalancerPresent")
    /\ args.hasLbKey /\ Len(args.lbs) = 2
    /\ args.lbs[1] # args.lbs[2]
    /\ result[1] = "throw"

(* C14: for a service whose deployment controller is not EXTERNAL, or has   *)
(* no deployment controller, the inspection of bootstrap fails with the     *)
(* unsupported controller error, and a lookup that returns no service fails *)
(* with the not found error; in both cases no call that changes the cluster *)
(* has been issued and the state file has not been written.                 *)
C14_InspectionRefusesService ==
    cmd = "bootstrap" =>
        /\ (controller # "EXTERNAL" \/ loc.service = "notFound") =>
              /\ pc \in {"bootstrap:describe", "done"}
              /\ log = <<>>
              /\ writes = 0
              /\ Topology = snap
        /\ (pc = "done" /\ loc.service = "notFound") =>
              outcome = "NotFoundError"
        /\ (pc = "done" /\ loc.service = "found" /\ controller # "EXTERNAL") =>
              outcome = "UnsupportedControllerError"
C14_Witness ==
    /\ cmd = "bootstrap" /\ pc = "done"
    /\ controller = "CODE_DEPLOY"
    /\ loc.service = "found"
    /\ NumTaskSets = 1 /\ findBlueTaskSet = Null
    /\ outcome = "UnsupportedControllerError"

\* the task sets the service had when the invocation started
TaskSetsAtStart == {a \in TaskSetArns : snap.taskSets[a].status # "ABSENT"}

(* C15: when the service bootstrap inspects has no PRIMARY task set: its    *)
(* only task set is made PRIMARY through the cluster API; with more than    *)
(* one task set the discovery fails with the ambiguous primary error and    *)
(* promotes nothing; with no task set the run is a first deployment and     *)
(* promotes nothing.                                                        *)
C15_BlueDiscovery ==
    (cmd = "bootstrap" /\ loc.service = "found" /\ controller = "EXTERNAL"
       /\ BlueAtStart = Null) =>
        LET promotions == Issued("updateServicePrimaryTaskSet")
        IN CASE Cardinality(TaskSetsAtStart) = 0 ->
                  /\ promotions = {}
                  /\ ~loc.isBluePresent
             [] Cardinality(TaskSetsAtStart) = 1 ->
                  /\ pc = "bootstrap:promote" => promotions = {}
                  /\ pc # "bootstrap:promote" =>
                        /\ Cardinality(promotions) = 1
                        /\ \A i \in promotions : {log[i].a1} = TaskSetsAtStart
                        /\ \A i \in promotions : log[i].ok <=>
                              \A a \in TaskSetsAtStart :
                                 taskSets[a].status = "PRIMARY"
                        /\ (\E i \in promotions : ~log[i].ok) =>
                              (pc = "done" /\ outcome = "ExternalApiError")
             [] OTHER ->
                  /\ pc = "done"
                  /\ outcome = "AmbiguousPrimaryError"
                  /\ log = <<>>
                  /\ Topology = snap
C15_Witness ==
    /\ cmd = "bootstrap" /\ loc.service = "found"
    /\ BlueAtStart = Null
    /\ TaskSetsAtStart = {"ts1"}
    /\ Succeeded("updateServicePrimaryTaskSet") # {}
    /\ taskSets["ts1"].status = "PRIMARY"

\* the resolutions of a task definition: the one of deploy and the one of
\* bootstrap
ResolvedTaskDefinition ==
    Returned("getTaskDefinition") \/ Returned("bootstrapTaskDefinition")

(* C16: the task definition is resolved in this precedence, whatever the    *)
(* inputs: a supplied task definition file is always used; otherwise,       *)
(* without blue, the resolution fails with the missing input error;         *)
(* otherwise the task definition of blue is fetched and carries none of the *)
(* fields the server assigns (ARN, revision, status, compatibilities,       *)
(* registration time and actor).                                            *)
C16_TaskDefinitionPrecedence ==
    ResolvedTaskDefinition =>
        LET got == result[1]
        IN IF ~isStringNull(args.file)
           THEN got.source = "file"
           ELSE IF ~args.isBluePresent
           THEN got.source = "MissingInputError"
           ELSE /\ got.source = "inherit"
                /\ got.keys \cap removeKeys = {}

(* C17: overrideObject gives, for every key of the template, the value of   *)
(* the override if the override has the key, else the value of the base if  *)
(* the base has the key, else no value; a key of the base or the override   *)
(* that the template does not have is not in the result.                    *)
C17_OverrideObject ==
    Returned("overrideObject") =>
        /\ DOMAIN result[1] = DOMAIN Template
        /\ \A key \in DOMAIN Template :
              result[1][key] =
                 IF key \in DOMAIN args.override THEN args.override[key]
                 ELSE IF key \in DOMAIN args.obj THEN args.obj[key]
                 ELSE Null

\* the entries of the image definitions file with the name of a container
SameNamed(element) ==
    {i \in 1..Len(args.imageDefinitions) :
        args.imageDefinitions[i].name = element.name}
\* the entry a container is matched with: the first one with its name
Matched(element) ==
    args.imageDefinitions[CHOOSE i \in SameNamed(element) :
                             \A j \in SameNamed(element) : i <= j]
\* the containers without an entry, and those whose entry has one of the
\* given images
Unmatched ==
    {i \in 1..Len(args.containerDefinitions) :
        SameNamed(args.containerDefinitions[i]) = {}}
MatchedWith(images) ==
    {i \in 1..Len(args.containerDefinitions) :
        /\ SameNamed(args.containerDefinitions[i]) # {}
        /\ Matched(args.containerDefinitions[i]).image \in images}
\* the claim about assembleTaskDefinition, for a given set of images that
\* count as empty
ImagesMatchedByName(empty) ==
    Returned("assembleTaskDefinition") =>
        LET got == result[1]
            n   == Len(args.containerDefinitions)
        IN /\ (Unmatched = {} /\ MatchedWith(empty) = {}) =>
                 /\ got.err = "none"
                 /\ Len(got.containerDefinitions) = n
                 /\ \A i \in 1..n :
                       /\ got.containerDefinitions[i].name
                             = args.containerDefinitions[i].name
                       /\ got.containerDefinitions[i].image
                             = Matched(args.containerDefinitions[i]).image
           /\ (Unmatched # {} /\ MatchedWith(empty) = {}) =>
                 got.err = "UnmatchedContainerError"
           /\ (Unmatched = {} /\ MatchedWith(empty) # {}) =>
                 got.err = "MissingImageError"
           /\ (Unmatched # {} /\ MatchedWith(empty) # {}) =>
                 got.err \in {"UnmatchedContainerError", "MissingImageError"}

CreateAttemptedWithTargetGroup ==
    /\ cmd \in {"deploy", "bootstrap"}
    /\ pc \in {"deploy:listener", "done"}
    /\ loc.greenTargetGroupArn # Null
\* the bindings the green task set specification declares
DeclaredBindings ==
    IF loc.greenTaskSet.hasLbKey THEN loc.greenTaskSet.lbs ELSE <<>>

(* C19: creating the task set with a supplied target group ARN fails with   *)
(* the missing load balancer configuration error, and issues no create      *)
(* call, when the specification declares no binding; when it declares one   *)
(* the created task set is bound to exactly the supplied ARN; with no       *)
(* supplied target group the created task set has the declared bindings.    *)
C19_CreateNeedsDeclaredBinding ==
    /\ (CreateAttemptedWithTargetGroup /\ Len(DeclaredBindings) = 0) =>
          /\ outcome = "MissingLoadBalancerConfigError"
          /\ Issued("createTaskSet") = {}
    /\ (CreateAttemptedWithTargetGroup /\ Len(DeclaredBindings) = 1
          /\ loc.createdTaskSet # Null) =>
          taskSets[loc.createdTaskSet].lbs = <<loc.greenTargetGroupArn>>
    /\ (cmd \in {"deploy", "bootstrap"} /\ loc.greenTargetGroupArn = Null
          /\ loc.createdTaskSet # Null) =>
          taskSets[loc.createdTaskSet].lbs = DeclaredBindings

\* a canary invocation has split the live rule
Split == cmd = "canary" /\ pc = "done" /\ outcome = "ok"

(* C20: a split with an integer percent from 0 to 100 replaces the actions  *)
(* of the rule by a forward to two target groups in which green has weight  *)
(* percent and blue has weight 100 - percent; both weights are integers     *)
(* from 0 to 100 and their sum is 100.                                      *)
C20_SplitWeights ==
    (Split /\ argv.percent \in 0..100) =>
        /\ Len(rules["live"]) = 2
        /\ \E g \in 1..2 :
              LET b == 3 - g
              IN /\ rules["live"][g].tg = argv.greenTargetGroupArn
                 /\ rules["live"][g].weight = argv.percent
                 /\ rules["live"][b].tg = argv.blueTargetGroupArn
                 /\ rules["live"][b].weight = 100 - argv.percent
        /\ \A i \in 1..2 : rules["live"][i].weight \in 0..100
        /\ rules["live"][1].weight + rules["live"][2].weight = 100
C20_Witness ==
    /\ Split
    /\ argv.percent = 30
    /\ argv.blueTargetGroupArn # argv.greenTargetGroupArn
    /\ rules["live"] = <<[tg |-> argv.greenTargetGroupArn, weight |-> 30],
                         [tg |-> argv.blueTargetGroupArn, weight |-> 70]>>

(* C21: a canary split whose percent is not an integer from 0 to 100 is     *)
(* rejected as a validation error of the caller: the listener rule is left  *)
(* as it was and no call that carries a weight outside 0..100 is sent to    *)
(* the load balancer.                                                       *)
C21_PercentOutOfRangeRejected ==
    (cmd = "canary" /\ pc = "done" /\ argv.percent \notin 0..100) =>
        /\ outcome = "ValidationError"
        /\ rules = snap.rules
        /\ Issued("divideListenerRule") = {}

(* --------------------- what a monitor has done -------------------------- *)
\* the events of some kinds, and the polls that observed some statuses
Events(kinds) == {i \in 1..Len(events) : events[i].ev \in kinds}
Observed(statuses) ==
    {i \in Events({"seen"}) : events[i].status \in statuses}
\* the handler waits for the steady state
AwaitSteady == mon.command # "none" /\ ~Watching(mon)
\* the handler watches for the loss of the steady state
WatchForUnhealthy == mon.command # "none" /\ Watching(mon)
\* the timeout has elapsed: the time has come and the timer is not pending
TimeoutElapsed == exit # "idle" /\ now = mon.timeout /\ ~timeoutTimer

(* C22: in the mode that awaits the steady state, a poll that observes      *)
(* STEADY_STATE ends the polling with success: both timers are cleared, no  *)
(* tick and no timeout follows and the process does not fail with the       *)
(* timeout error; a poll that observes another status concludes nothing     *)
(* and leaves both timers scheduled; when the timeout elapses and no poll   *)
(* has observed STEADY_STATE the monitor ends with the timeout failure.     *)
C22_AwaitSteady ==
    AwaitSteady =>
        /\ \A i \in Observed({"STEADY_STATE"}) :
              /\ i < Len(events) /\ events[i + 1].ev = "steady"
              /\ ~interval /\ ~timeoutTimer
              /\ \A j \in Events({"tick", "timedOut"}) : j < i
              /\ exit # "TimeoutError"
              /\ Observed({Null}) = {} =>
                    exit = IF calls = {} THEN "ok" ELSE "running"
        /\ \A i \in Observed({"PENDING"}) :
              /\ i < Len(events) => events[i + 1].ev # "steady"
              /\ (Events({"steady", "timedOut"}) = {} /\ exit = "running") =>
                    interval /\ timeoutTimer
        /\ (TimeoutElapsed /\ Observed({"STEADY_STATE", Null}) = {}) =>
              /\ exit = "TimeoutError"
              /\ events[Len(events)].ev = "timedOut"
C22_Witness ==
    /\ AwaitSteady
    /\ exit = "ok"
    /\ now < mon.timeout
    /\ Len(events) = 5
    /\ events[2].ev = "seen" /\ events[2].status = "PENDING"
    /\ events[4].ev = "seen" /\ events[4].status = "STEADY_STATE"
    /\ events[5].ev = "steady"

\* the polls that observed a status other than STEADY_STATE before the
\* timeout fired
UnhealthyBeforeTimeout ==
    {i \in Observed({"PENDING"}) : \A j \in Events({"healthy"}) : i < j}

(* C23: in the mode that watches for an unhealthy deployment, the first     *)
(* poll that observes a status other than STEADY_STATE ends the monitor at  *)
(* once with the unhealthy failure and clears both timers; when every poll  *)
(* before the timeout has observed STEADY_STATE the monitor ends with       *)
(* success as the timeout elapses.                                          *)
C23_WatchForUnhealthy ==
    WatchForUnhealthy =>
        /\ \A i \in UnhealthyBeforeTimeout :
              (\A j \in UnhealthyBeforeTimeout : i <= j) =>
                 /\ i < Len(events) /\ events[i + 1].ev = "unhealthy"
                 /\ ~interval /\ ~timeoutTimer
                 /\ exit = "UnhealthyError"
        /\ (TimeoutElapsed /\ Observed({"PENDING", Null}) = {}) =>
              /\ Events({"healthy"}) # {}
              /\ exit = IF calls = {} THEN "ok" ELSE "running"

\* the conclusions a monitor comes to
Conclusions == {"steady", "unhealthy", "timedOut", "healthy"}

(* C24: once the monitor has concluded, both timers are cancelled and       *)
(* nothing happens afterwards: no tick fires, no describe call is issued    *)
(* and no callback whose call was outstanding goes on to observe a status   *)
(* or to come to another conclusion.                                        *)
C24_NothingAfterConclusion ==
    \A c \in Events(Conclusions) :
        /\ ~interval /\ ~timeoutTimer
        /\ \A j \in 1..Len(events) :
              j > c => events[j].ev \notin {"tick", "seen"} \cup Conclusions

\* wait with a poll interval of 10 seconds and a timeout of 25 seconds
TenAndTwentyFive ==
    /\ AwaitSteady
    /\ Seconds(mon.pollInterval) = 10
    /\ Seconds(mon.timeout) = 25
\* every describe call so far was answered at once: the callback went on
\* right after its tick, before time passed or anything else happened
AnsweredAtOnce ==
    /\ calls = {}
    /\ \A i \in Events({"tick"}) :
          /\ i < Len(events)
          /\ events[i + 1].ev = "seen"
          /\ events[i + 1].tick = events[i].tick
          /\ events[i + 1].t = events[i].t
\* the statuses the polls have observed so far, in order
RECURSIVE StatusesFrom(_)
StatusesFrom(i) ==
    IF i > Len(events) THEN <<>>
    ELSE IF events[i].ev = "seen"
    THEN <<events[i].status>> \o StatusesFrom(i + 1)
    ELSE StatusesFrom(i + 1)
IsPrefix(front, whole) ==
    /\ Len(front) <= Len(whole)
    /\ \A i \in 1..Len(front) : front[i] = whole[i]
\* the monitor has ended with success at 20 seconds, before the timeout
ResolvedAtTwenty ==
    /\ exit = "ok"
    /\ Events({"timedOut"}) = {}
    /\ \E i \in Events({"steady"}) : Seconds(events[i].t) = 20
    /\ Seconds(now) < 25

(* C25 as stated: wait with a poll interval of 10 seconds and a timeout of  *)
(* 25 seconds, whose successive polls are answered with PENDING, PENDING    *)
(* and STEADY_STATE, ends with success at 20 seconds, before the timeout.   *)
C25_ResolvesAtTwenty ==
    (/\ TenAndTwentyFive
     /\ AnsweredAtOnce
     /\ IsPrefix(StatusesFrom(1), <<"PENDING", "PENDING", "STEADY_STATE">>)
     /\ exit \notin {"idle", "running"}) => ResolvedAtTwenty

(* C25 as amended: the same wait against a task set that is PENDING at 0    *)
(* and at 10 seconds and in STEADY_STATE from 20 seconds on, polled at 10   *)
(* and at 20 seconds with every poll answered at once, ends with success    *)
(* at 20 seconds, before the timeout.                                       *)
C25_ResolvesAtTwentyByTime ==
    (/\ TenAndTwentyFive
     /\ AnsweredAtOnce
     /\ \A i \in Events({"seen"}) :
           events[i].status = IF Seconds(events[i].t) >= 20
                              THEN "STEADY_STATE" ELSE "PENDING"
     /\ exit \notin {"idle", "running"}) => ResolvedAtTwenty
C25_Witness ==
    /\ TenAndTwentyFive
    /\ exit = "ok"
    /\ events = <<Event("tick", 2, 2, Null), Event("seen", 2, 2, "PENDING"),
                  Event("tick", 4, 4, Null),
                  Event("seen", 4, 4, "STEADY_STATE"),
                  Event("steady", 4, 4, "STEADY_STATE")>>

\* the fields of a state record
StateRecordFields ==
    {"isInitialDeployment", "isCanaryEligible", "isLoadBalancerPresent",
     "blueTaskSetArn", "greenTaskSetArn", "greenTaskDefinitionArn",
     "blueTargetGroupArn", "greenTargetGroupArn"}

(* C26: every state file that a deploy or a bootstrap writes, on success    *)
(* and on failure, is a record with exactly the fields                      *)
(* isInitialDeployment, isCanaryEligible, isLoadBalancerPresent,            *)
(* blueTaskSetArn, greenTaskSetArn, greenTaskDefinitionArn,                 *)
(* blueTargetGroupArn and greenTargetGroupArn.                              *)
C26_StateFileFields ==
    (cmd \in {"deploy", "bootstrap"} /\ writes > 0) =>
        DOMAIN outputFile = StateRecordFields

\* the fields of a state record that hold an ARN
ArnFields ==
    {"blueTaskSetArn", "greenTaskSetArn", "greenTaskDefinitionArn",
     "blueTargetGroupArn", "greenTargetGroupArn"}

(* C27: no ARN field of a state record that deploy writes holds the text    *)
(* "null"; when the caller passes no blue task set, also by passing the     *)
(* text "null" for it, the record has no value for blueTaskSetArn and       *)
(* isInitialDeployment is true.                                             *)
C27_NoNullText ==
    (cmd = "deploy" /\ writes > 0) =>
        /\ \A field \in ArnFields : outputFile[field] # StrNull
        /\ argv.blueTaskSetArn \in {Null, StrNull} =>
              /\ outputFile.blueTaskSetArn = Null
              /\ outputFile.isInitialDeployment

\* the other listener rule
OtherRule(rule) == IF rule = "live" THEN "test" ELSE "live"

(* C28: a deploy modifies at most one listener rule, and only after it has  *)
(* created the green task set: in the blue green outcome the test rule,     *)
(* which then forwards all traffic to the green target group, while the     *)
(* live rule is left as it was; in the rolling outcome with load balancer   *)
(* the live rule, while the test rule is left as it was; without load       *)
(* balancer no rule at all.                                                 *)
C28_DeployTouchesOneRule ==
    cmd = "deploy" =>
        /\ Cardinality(Issued("modifyListenerRule")) <= 1
        /\ \A i \in Issued("modifyListenerRule") :
              LET rule == IF loc.topology = "blueGreen" THEN "test" ELSE "live"
              IN /\ loc.topology \in {"blueGreen", "rollingLB"}
                 /\ log[i].a1 = rule
                 /\ log[i].a2 = loc.greenTargetGroupArn
                 /\ \E j \in Succeeded("createTaskSet") : j < i
                 /\ rules[OtherRule(rule)] = snap.rules[OtherRule(rule)]
                 /\ rules[rule] = IF log[i].ok
                                  THEN Forward(loc.greenTargetGroupArn)
                                  ELSE snap.rules[rule]
        /\ Issued("modifyListenerRule") = {} => rules = snap.rules
C28_Witness ==
    /\ cmd = "deploy" /\ pc = "done" /\ outcome = "ok"
    /\ loc.topology = "blueGreen"
    /\ Succeeded("modifyListenerRule") # {}
    /\ rules["test"] = Forward(loc.greenTargetGroupArn)
    /\ rules["live"] = Forward(loc.blueTargetGroupArn)
    /\ loc.blueTargetGroupArn # loc.greenTargetGroupArn
    /\ snap.rules["test"] # rules["test"]

\* the task sets the service had when the invocation started
ExistedAtStart == {a \in TaskSetArns : snap.taskSets[a].status # "ABSENT"}

(* C29: clean deletes the task sets of the service that are ACTIVE and no   *)
(* other, so never a PRIMARY or a DRAINING one; a clean that has ended with *)
(* success has deleted every ACTIVE task set; on a service without task     *)
(* sets clean deletes nothing and ends with success, unless the service     *)
(* cannot be described.                                                     *)
C29_CleanDeletesActiveOnly ==
    cmd = "clean" =>
        /\ \A i \in Issued("deleteTaskSet") :
              snap.taskSets[log[i].a1].status = "ACTIVE"
        /\ \A a \in TaskSetArns :
              snap.taskSets[a].status # "ACTIVE" =>
                 taskSets[a] = snap.taskSets[a]
        /\ (pc = "done" /\ outcome = "ok") =>
              \A a \in TaskSetArns :
                 snap.taskSets[a].status = "ACTIVE" =>
                    \E i \in Succeeded("deleteTaskSet") : log[i].a1 = a
        /\ (pc = "done" /\ ExistedAtStart = {}) =>
              /\ Issued("deleteTaskSet") = {}
              /\ outcome \in {"ok", "ExternalApiError", "NotFoundError"}

(* C30: a rollback that has ended has attempted each of its cleanup actions *)
(* that its options call for (the deletion of the green task set, the       *)
(* deregistration of the green task definition, the correction of the live  *)
(* listener rule), also when an earlier one has failed, and it does not     *)
(* end with success when one of them has failed.                            *)
C30_RollbackAttemptsAll ==
    (cmd = "rollback" /\ pc = "done" /\ argv.fromFile) =>
        /\ Present(argv.greenTaskSetArn) => Issued("deleteTaskSet") # {}
        /\ Present(argv.greenTaskDefinitionArn) =>
              Issued("deregisterTaskDefinition") # {}
        /\ (RollbackCorrectsRule(argv) /\ Present(argv.blueTargetGroupArn)) =>
              Issued("modifyListenerRule") # {}
        /\ (\E i \in 1..Len(log) : ~log[i].ok) => outcome # "ok"

\* the task set that this bootstrap made PRIMARY, or Null
Promoted ==
    LET done == Succeeded("updateServicePrimaryTaskSet")
    IN IF cmd = "bootstrap" /\ done # {}
       THEN log[CHOOSE i \in done : TRUE].a1 ELSE Null

(* C31: once bootstrap has made the only task set of the service PRIMARY,   *)
(* that task set is blue for the rest of the run: blueTaskSet is that task   *)
(* set, and neither the inheritance of its task definition nor the          *)
(* inheritance of its spec fails for want of a blue task set.               *)
C31_PromotedIsBlue ==
    (Promoted # Null /\ pc # "bootstrap:promote") =>
        /\ loc.blueTaskSet = Promoted
        /\ outcome \notin {"TypeError", "MissingInputError"}

(* C32: the matching of the target groups for a blue green deployment is    *)
(* match or fail: the green target group that is returned is never the      *)
(* target group of blue; when both names the caller wrote are the name of   *)
(* the target group of blue, the matching fails.                            *)
C32_GreenDiffersFromBlue ==
    Returned("getTargetGroupsWithBlueGreenEnabled") =>
        /\ result[1].err = "none" => result[1].green # result[1].blue
        /\ (Len(args.names) >= 2 /\ args.names[1] = args.blueName
              /\ args.names[2] = args.blueName) => result[1].err # "none"

(* C33: the ticks of the poll are serialized: no tick issues its            *)
(* describeTaskSet call while the call of an earlier tick is outstanding,    *)
(* however long the cluster API takes to answer.                             *)
C33_TicksSerialize ==
    [][Tick => calls = {}]_vars

\* the polls that found no task set, where the handler checks for it
LookupFailures ==
    {i \in Observed({Null}) : mon.command \in {"wait", "monitor"}}

(* C34: when a poll finds that the cluster API reports no task set, the     *)
(* monitor concludes at once with the lookup failure, whether it awaits the  *)
(* steady state or watches for its loss: both timers are cancelled, the      *)
(* process ends with the lookup error and neither a tick nor the timeout     *)
(* brings anything after it.                                                 *)
C34_LookupFailureConcludes ==
    \A i \in LookupFailures :
        /\ ~interval /\ ~timeoutTimer
        /\ exit = "LookupError"
        /\ i = Len(events)

\* the terminal outcomes of a run: success, unhealthy failure, timeout
\* failure and lookup failure
Outcomes == Events(Conclusions) \cup LookupFailures

(* C37: a run of the monitor has at most one terminal outcome among         *)
(* success, unhealthy failure, timeout failure and lookup failure, however   *)
(* the ticks, the answers of the outstanding describe calls and the timeout  *)
(* interleave.                                                               *)
C37_AtMostOneOutcome ==
    Cardinality(Outcomes) <= 1

(* C35: in bootstrap a green task set file takes precedence over blue:      *)
(* when the file is given the step that assembles the green task set reads   *)
(* it and does not fail for want of a path or of a blue task set, whether    *)
(* or not blue exists; when no file is given the task set of blue is used;   *)
(* when there is neither, bootstrap fails with the missing input error.      *)
C35_TaskSetFilePrecedence ==
    [][pc = "bootstrap:plan" =>
          IF argv'.greenTaskSetFile
          THEN outcome' \notin {"TypeError", "MissingInputError"}
          ELSE IF loc.blueTaskSet # Null
          THEN loc'.greenTaskSet = Described(loc.blueTaskSet)
          ELSE outcome' = "MissingInputError"]_vars

\* bootstrap has written its output files
BootstrapWritten == cmd = "bootstrap" /\ pc = "done" /\ outcome = "ok"

(* C39: whenever the state that bootstrap writes has isLoadBalancerPresent  *)
(* true, the final green task set it writes has exactly one load balancer    *)
(* binding, to the green target group of the topology decision; whenever it  *)
(* is false the final green task set has no binding; whatever the blue task  *)
(* set and the override file are.                                            *)
C39_BindingsMatchState ==
    BootstrapWritten =>
        LET final == loc.finalGreenTaskSet
        IN IF outputFile.isLoadBalancerPresent
           THEN /\ final.hasLbKey
                /\ Len(final.lbs) = 1
                /\ final.lbs[1] = loc.greenTargetGroupArn
           ELSE ~final.hasLbKey \/ Len(final.lbs) = 0

(* C36: complete never deletes the task set it promotes: it issues no       *)
(* deletion of the task set named by greenTaskSetArn, and when it ends with  *)
(* success that task set exists and is PRIMARY, whatever the state of the    *)
(* service was when complete was invoked, also when an earlier complete had  *)
(* already made green PRIMARY and then failed.                               *)
C36_CompleteKeepsGreen ==
    cmd = "complete" =>
        /\ \A i \in Issued("deleteTaskSet") : log[i].a1 # argv.greenTaskSetArn
        /\ (pc = "done" /\ outcome = "ok") =>
              /\ Exists(argv.greenTaskSetArn)
              /\ taskSets[argv.greenTaskSetArn].status = "PRIMARY"

\* the ARN that a target group option of canary stands for
ResolvedArn(option) == IF StartsWithArn(option) THEN option ELSE TgArn(option)
\* canary was given a target group by its name
CanaryByName ==
    /\ cmd = "canary" /\ pc = "done"
    /\ ~StartsWithArn(argv.blueTargetGroupArn)
          \/ ~StartsWithArn(argv.greenTargetGroupArn)

(* C38: when canary is given a target group by its name, the listener rule  *)
(* modification it issues carries the ARNs the names resolve to, for blue    *)
(* and for green; a rule that is modified holds exactly those ARNs.          *)
C38_CanarySendsResolvedArns ==
    CanaryByName =>
        /\ \A i \in Issued("divideListenerRule") :
              /\ log[i].a1 = ResolvedArn(argv.blueTargetGroupArn)
              /\ log[i].a2 = ResolvedArn(argv.greenTargetGroupArn)
        /\ rules # snap.rules =>
              {rules["live"][j].tg : j \in 1..Len(rules["live"])}
                 = {ResolvedArn(argv.blueTargetGroupArn),
                    ResolvedArn(argv.greenTargetGroupArn)}

\* the blue task set a deploy was given, when the service had it at the start
DeployBlue ==
    IF cmd = "deploy" /\ Present(argv.blueTaskSetArn)
          /\ argv.blueTaskSetArn \in ExistedAtStart
    THEN argv.blueTaskSetArn ELSE Null

(* C40: deploy never removes or demotes blue: in every run, whether it has  *)
(* ended or not, with success or with an error, deploy has issued no         *)
(* deletion of a task set, no deregistration of a task definition and no     *)
(* update of the primary task set, and the blue task set exists with the     *)
(* status, the bindings and the task definition it had before the run.       *)
C40_DeployKeepsBlue ==
    cmd = "deploy" =>
        /\ Issued("deleteTaskSet") = {}
        /\ Issued("deregisterTaskDefinition") = {}
        /\ Issued("updateServicePrimaryTaskSet") = {}
        /\ DeployBlue # Null =>
              taskSets[DeployBlue] = snap.taskSets[DeployBlue]

\* a deploy beside a PRIMARY blue has created the green task set, modified
\* the listener rule and ended with success
C40_Witness ==
    /\ cmd = "deploy" /\ pc = "done" /\ outcome = "ok"
    /\ DeployBlue # Null
    /\ snap.taskSets[DeployBlue].status = "PRIMARY"
    /\ Succeeded("createTaskSet") # {}
    /\ Succeeded("modifyListenerRule") # {}

====
